---- MODULE Spec2Model ----
(***************************************************************************)
(* verifydump: a model of the Datfile parser (dat.py), of the dump folder  *)
(* verification (verify.py) and of the .cue essential-form reduction.      *)
(*                                                                         *)
(* Text is modelled as a sequence of one-character strings; a file name is *)
(* a sequence of tokens whose last token is its suffix (<<"a", ".bin">>).  *)
(* A missing XML attribute and an empty one are both the empty sequence:   *)
(* _get_required_attrib treats them alike.                                 *)
(***************************************************************************)
EXTENDS Integers, Sequences, FiniteSets, TLC

VARIABLES
    parser,     \* the DatParser instance: tag_path, dat, game (+ exception raised)
    doc,        \* where the XML parser is in the document
    event,      \* the callback the XML parser made last
    dat,                \* verify_redump_dump_folder: the loaded Dat
    dump_folder,        \* the entries of the dump folder
    extra_cue_source,   \* None, or the path given as --extra-cue-source
    iterdir,            \* the entries dump_folder.iterdir() has yet to yield
    verified_roms,
    cue_verified,
    verification,       \* running, or how verify_redump_dump_folder ended
    dump_cue_text,      \* the text of the .cue of the dump
    extra_cue_text,     \* the text of the extra .cue
    dump_cue_lines,     \* the lines dump_cue_text was written from, trimmed
    extra_cue_lines,    \* the lines extra_cue_text was written from, trimmed
    essentials,         \* the essential forms of the two texts
    gdi_track_count,    \* convert_gdi_to_cue: len(gdi_track_lines)
    gdi_track_lines,    \* the track lines of the .gdi read so far
    cue_file,           \* the lines written to the .cue
    conversion,         \* running, or how convert_gdi_to_cue ended
    converted_dump,     \* normalize_redump_bincue_dump: the dump as chdman and binmerge left it
    dump_files,         \* the names of the files in dump_path
    cue_file_text,      \* the content of the file at cue_file_path
    has_multiple_tracks,
    normalization,      \* where normalize_redump_bincue_dump is, or how it ended
    dump_file_or_folder_paths,  \* verify_dumps: the files and folders to verify
    verified_games,
    errors,
    batch,              \* where verify_dumps is, or how it ended
    cache_table,        \* cache.py: the rows of table "cache"
    file_stats,         \* st_size and st_mtime_ns of the dump files
    cache_dat,          \* the Dat a lookup is made with
    lookup,             \* the call made last to the cache, and what it returned
    chd_verification    \* verify_chd: its arguments, where it is, or how it ended

datVars == <<parser, doc, event>>
verifyVars == <<dat, dump_folder, extra_cue_source, iterdir, verified_roms, cue_verified, verification>>
cueVars == <<dump_cue_text, extra_cue_text, dump_cue_lines, extra_cue_lines, essentials>>
gdiVars == <<gdi_track_count, gdi_track_lines, cue_file, conversion>>
normalizeVars == <<converted_dump, dump_files, cue_file_text, has_multiple_tracks, normalization>>
batchVars == <<dump_file_or_folder_paths, verified_games, errors, batch>>
cacheVars == <<cache_table, file_stats, cache_dat, lookup>>
chdVars == <<chd_verification>>

\* What the actions of one component leave alone: the variables of the others
notDatVars == <<verifyVars, cueVars, gdiVars, normalizeVars, batchVars, cacheVars, chdVars>>
notVerifyVars == <<datVars, cueVars, gdiVars, normalizeVars, batchVars, cacheVars, chdVars>>
notCueVars == <<datVars, verifyVars, gdiVars, normalizeVars, batchVars, cacheVars, chdVars>>
notGdiVars == <<datVars, verifyVars, cueVars, normalizeVars, batchVars, cacheVars, chdVars>>
notNormalizeVars == <<datVars, verifyVars, cueVars, gdiVars, batchVars, cacheVars, chdVars>>
notBatchVars == <<datVars, verifyVars, cueVars, gdiVars, normalizeVars, cacheVars, chdVars>>
notCacheVars == <<datVars, verifyVars, cueVars, gdiVars, normalizeVars, batchVars, chdVars>>
notChdVars == <<datVars, verifyVars, cueVars, gdiVars, normalizeVars, batchVars, cacheVars>>
vars == <<parser, doc, event, dat, dump_folder, extra_cue_source, iterdir, verified_roms,
          cue_verified, verification, dump_cue_text, extra_cue_text, dump_cue_lines,
          extra_cue_lines, essentials, gdi_track_count, gdi_track_lines, cue_file, conversion,
          converted_dump, dump_files, cue_file_text, has_multiple_tracks, normalization,
          dump_file_or_folder_paths, verified_games, errors, batch,
          cache_table, file_stats, cache_dat, lookup, chd_verification>>

(***************************************************************************)
(* Bounds                                                                  *)
(***************************************************************************)
MaxDepth == 3       \* deepest element nesting the XML document reaches
MaxObjects == 3     \* Game and ROM objects one parse constructs
MaxCatalogRoms == 2 \* rom elements of the Datfile a dump is verified against
MaxFiles == 2       \* entries of a dump folder

Sha1HexLen == 40    \* hashlib's hexdigest() of a SHA-1 is 40 characters

(***************************************************************************)
(* Python values                                                           *)
(***************************************************************************)
None == [type |-> "NoneType"]

NoException == [type |-> "", message |-> ""]

Raise(type, message) == [type |-> type, message |-> message]

\* A 40-character string made of one character: the stand-in for a digest.
Digest(c) == [i \in 1..Sha1HexLen |-> c]

HexDigits == {"0", "1", "2", "3", "4", "5", "6", "7", "8", "9",
              "a", "b", "c", "d", "e", "f", "A", "B", "C", "D", "E", "F"}

Digits == {"0", "1", "2", "3", "4", "5", "6", "7", "8", "9"}

\* The characters of the model that str.strip() and int() take for whitespace
Whitespace == {" ", "\t", "\n", "\r", "\f"}

Range(s) == {s[i] : i \in DOMAIN s}

RECURSIVE SeqsUpTo(_, _)
SeqsUpTo(S, n) ==
    IF n = 0 THEN {<<>>}
    ELSE LET shorter == SeqsUpTo(S, n - 1)
         IN shorter \cup {Append(s, c) : s \in shorter, c \in S}

RECURSIVE LStrip(_)
LStrip(s) == IF s # <<>> /\ Head(s) \in Whitespace THEN LStrip(Tail(s)) ELSE s

RECURSIVE RStrip(_)
RStrip(s) ==
    IF s # <<>> /\ s[Len(s)] \in Whitespace THEN RStrip(SubSeq(s, 1, Len(s) - 1)) ELSE s

\* str.strip()
Strip(s) == RStrip(LStrip(s))

DigitValue(c) ==
    CASE c = "0" -> 0 [] c = "1" -> 1 [] c = "2" -> 2 [] c = "3" -> 3 [] c = "4" -> 4
      [] c = "5" -> 5 [] c = "6" -> 6 [] c = "7" -> 7 [] c = "8" -> 8 [] c = "9" -> 9

\* The unsigned part of an int() literal: digits, single underscores between them.
IsDigitRun(t) ==
    /\ t # <<>>
    /\ t[1] \in Digits
    /\ t[Len(t)] \in Digits
    /\ \A i \in 1..Len(t) : t[i] \in Digits \cup {"_"}
    /\ \A i \in 1..(Len(t) - 1) : ~(t[i] = "_" /\ t[i + 1] = "_")

IntBody(s) ==
    LET t == Strip(s)
    IN IF t # <<>> /\ Head(t) \in {"+", "-"} THEN Tail(t) ELSE t

\* int(s) raises ValueError unless this holds.
IsIntLiteral(s) == IsDigitRun(IntBody(s))

RECURSIVE DigitRunValue(_, _)
DigitRunValue(t, acc) ==
    IF t = <<>> THEN acc
    ELSE IF Head(t) = "_" THEN DigitRunValue(Tail(t), acc)
    ELSE DigitRunValue(Tail(t), 10 * acc + DigitValue(Head(t)))

\* int(s), for a string int() accepts.
IntOf(s) ==
    LET t == Strip(s)
        v == DigitRunValue(IntBody(s), 0)
    IN IF Head(t) = "-" THEN 0 - v ELSE v

(***************************************************************************)
(* dat.py: Dat, Game, ROM.  Python compares these objects by identity, so  *)
(* Game and ROM carry the ordinal of their construction (objects_made) as  *)
(* id.                                                                     *)
(***************************************************************************)
Dat(system) == [type |-> "Dat", system |-> system, games |-> <<>>, roms_by_sha1hex |-> <<>>]

Game(id, name) == [type |-> "Game", id |-> id, name |-> name, roms |-> <<>>]

\* ROM.__init__ that keeps no reference to the Game
ROMWithoutGame(id, name, size, sha1hex, game) ==
    [type |-> "ROM", id |-> id, name |-> name, size |-> size, sha1hex |-> sha1hex, game |-> 0]

ROM(id, name, size, sha1hex, game) ==
    [type |-> "ROM", id |-> id, name |-> name, size |-> size, sha1hex |-> sha1hex, game |-> game.id]

\* dict.get(key): None when the key is absent
DictGet(d, key) == IF key \in DOMAIN d THEN d[key] ELSE None

\* d[key] = value
DictSet(d, key, value) == (key :> value) @@ d

(***************************************************************************)
(* dat.py: DatParser                                                       *)
(***************************************************************************)
NewDatParser ==
    [tag_path |-> <<>>, dat |-> None, game |-> None, exception |-> NoException,
     objects_made |-> 0]

ParsingError(p, message) == [p EXCEPT !.exception = Raise("DatParsingException", message)]

\* self.game.roms.append(rom); self.dat.roms_by_sha1hex[rom.sha1hex] = rom
AddRom(p, rom) ==
    [p EXCEPT !.game.roms = Append(@, rom),
              !.dat.roms_by_sha1hex = DictSet(@, rom.sha1hex, rom),
              !.objects_made = @ + 1]

StartGame(p, attribs) ==
    IF p.game # None THEN ParsingError(p, "Found a <game> within another <game>")
    ELSE IF p.dat = None THEN ParsingError(p, "Found a <game> before the <header> was parsed")
    ELSE IF attribs.name = <<>> THEN ParsingError(p, "Found a <game> without a name attribute")
    ELSE [p EXCEPT !.game = Game(p.objects_made + 1, attribs.name), !.objects_made = @ + 1]

\* The rom branch of start() without the check of the name attribute
StartRomWithoutNameCheck(p, attribs) ==
    IF p.game = None THEN ParsingError(p, "Found a <rom> that was not within a <game>")
    ELSE IF attribs.size = <<>> THEN ParsingError(p, "Found a <rom> without a size attribute")
    ELSE IF ~IsIntLiteral(attribs.size)
        THEN ParsingError(p, "<rom> has size attribute that is not an integer")
    ELSE IF attribs.sha1 = <<>> THEN ParsingError(p, "Found a <rom> without a sha1 attribute")
    ELSE AddRom(p, ROM(p.objects_made + 1, attribs.name, IntOf(attribs.size), attribs.sha1, p.game))

StartRom(p, attribs) ==
    IF p.game = None THEN ParsingError(p, "Found a <rom> that was not within a <game>")
    ELSE IF attribs.size = <<>> THEN ParsingError(p, "Found a <rom> without a size attribute")
    ELSE IF ~IsIntLiteral(attribs.size)
        THEN ParsingError(p, "<rom> has size attribute that is not an integer")
    ELSE IF attribs.name = <<>> THEN ParsingError(p, "Found a <rom> without a name attribute")
    ELSE IF attribs.sha1 = <<>> THEN ParsingError(p, "Found a <rom> without a sha1 attribute")
    ELSE AddRom(p, ROM(p.objects_made + 1, attribs.name, IntOf(attribs.size), attribs.sha1, p.game))

\* DatParser.start(tag, attribs)
Start(p, tag, attribs) ==
    LET q == [p EXCEPT !.tag_path = Append(@, tag)]
    IN IF q.tag_path = <<"datafile", "game">> THEN StartGame(q, attribs)
       ELSE IF q.tag_path = <<"datafile", "game", "rom">> THEN StartRom(q, attribs)
       ELSE q

\* DatParser.end(tag)
End(p) ==
    LET q == IF p.tag_path = <<"datafile", "game">>
             THEN [p EXCEPT !.dat.games = Append(@, p.game), !.game = None]
             ELSE p
    IN [q EXCEPT !.tag_path = SubSeq(@, 1, Len(@) - 1)]

\* DatParser.data(data)
Data(p, data) ==
    IF p.tag_path = <<"datafile", "header", "name">> THEN [p EXCEPT !.dat = Dat(data)] ELSE p

(***************************************************************************)
(* The documents fed to the parser                                         *)
(***************************************************************************)
Tags == {"datafile", "header", "name", "game", "rom"}

NoAttribs == [name |-> <<>>, size |-> <<>>, sha1 |-> <<>>]

SystemNames == {<<"Sony - PlayStation">>}

GameNames == {<<"G1">>, <<"G2">>}

RomNames == {<<"a", ".bin">>}

\* size="", "7", "-7", "abc"
SizeAttribs == {<<>>, <<"7">>, <<"-", "7">>, <<"a", "b", "c">>}

\* sha1="", a two-character value, a digest
Sha1Attribs == {<<>>, <<"a", "b">>, Digest("a")}

AttribsOf(tag) ==
    IF tag = "game" THEN {[NoAttribs EXCEPT !.name = n] : n \in GameNames \cup {<<>>}}
    ELSE IF tag = "rom"
        THEN [name : RomNames \cup {<<>>}, size : SizeAttribs, sha1 : Sha1Attribs]
    ELSE {NoAttribs}

NoEvent == [callback |-> "", tag |-> "", attribs |-> NoAttribs]

(***************************************************************************)
(* SpecDat: the XML parser drives DatParser over any well-formed document  *)
(* whose root element is datafile.  Nothing is fed after an exception.     *)
(***************************************************************************)
\* convert_gdi_to_cue is not running
IdleGdi ==
    /\ gdi_track_count = 0
    /\ gdi_track_lines = <<>>
    /\ cue_file = <<>>
    /\ conversion = [state |-> "idle"]

\* normalize_redump_bincue_dump is not running
IdleNormalize ==
    /\ converted_dump = None
    /\ dump_files = {}
    /\ cue_file_text = None
    /\ has_multiple_tracks = FALSE
    /\ normalization = [state |-> "idle"]

\* verify_dumps is not running
IdleBatch ==
    /\ dump_file_or_folder_paths = <<>>
    /\ verified_games = <<>>
    /\ errors = <<>>
    /\ batch = [state |-> "idle"]

\* No cache is open
IdleCache ==
    /\ cache_table = {}
    /\ file_stats = <<>>
    /\ cache_dat = None
    /\ lookup = [call |-> "none"]

\* verify_chd is not running
IdleChd == chd_verification = [state |-> "idle"]

\* The parser, the folder verification and the .cue comparison are not running
IdleDat == parser = NewDatParser /\ doc = "closed" /\ event = NoEvent

IdleVerify ==
    /\ dat = None
    /\ dump_folder = {}
    /\ extra_cue_source = None
    /\ iterdir = {}
    /\ verified_roms = <<>>
    /\ cue_verified = FALSE
    /\ verification = [state |-> "idle"]

IdleCue ==
    /\ dump_cue_text = <<>>
    /\ extra_cue_text = <<>>
    /\ dump_cue_lines = <<>>
    /\ extra_cue_lines = <<>>
    /\ essentials = [dump |-> <<>>, extra |-> <<>>]

InitDat ==
    /\ parser = NewDatParser
    /\ doc = "prolog"
    /\ event = NoEvent
    /\ dat = None
    /\ dump_folder = {}
    /\ extra_cue_source = None
    /\ iterdir = {}
    /\ verified_roms = <<>>
    /\ cue_verified = FALSE
    /\ verification = [state |-> "idle"]
    /\ dump_cue_text = <<>>
    /\ extra_cue_text = <<>>
    /\ dump_cue_lines = <<>>
    /\ extra_cue_lines = <<>>
    /\ essentials = [dump |-> <<>>, extra |-> <<>>]
    /\ IdleGdi
    /\ IdleNormalize
    /\ IdleBatch
    /\ IdleCache
    /\ IdleChd

Feeding == doc \in {"prolog", "open"} /\ parser.exception = NoException

StartElement ==
    /\ Feeding
    /\ doc = "prolog" <=> parser.tag_path = <<>>
    /\ Len(parser.tag_path) < MaxDepth
    /\ \E tag \in Tags : \E attribs \in AttribsOf(tag) :
          /\ doc = "prolog" => tag = "datafile"
          /\ Append(parser.tag_path, tag) \in {<<"datafile", "game">>, <<"datafile", "game", "rom">>}
                => parser.objects_made < MaxObjects
          /\ parser' = Start(parser, tag, attribs)
          /\ event' = [callback |-> "start", tag |-> tag, attribs |-> attribs]
    /\ doc' = "open"
    /\ UNCHANGED notDatVars

EndElement ==
    /\ Feeding
    /\ parser.tag_path # <<>>
    /\ parser' = End(parser)
    /\ event' = [NoEvent EXCEPT !.callback = "end"]
    /\ doc' = IF Len(parser.tag_path) = 1 THEN "epilog" ELSE "open"
    /\ UNCHANGED notDatVars

CharacterData ==
    /\ Feeding
    /\ parser.tag_path # <<>>
    /\ \E data \in SystemNames : parser' = Data(parser, data)
    /\ event' = [NoEvent EXCEPT !.callback = "data"]
    /\ UNCHANGED doc
    /\ UNCHANGED notDatVars

\* xml_parser.close() returns DatParser.close(), the Dat
Close ==
    /\ doc = "epilog"
    /\ doc' = "closed"
    /\ event' = [NoEvent EXCEPT !.callback = "close"]
    /\ UNCHANGED parser
    /\ UNCHANGED notDatVars

NextDat == StartElement \/ EndElement \/ CharacterData \/ Close

SpecDat == InitDat /\ [][NextDat]_vars

(***************************************************************************)
(* dat.py: load_dat, on the events of a well-formed Datfile                *)
(***************************************************************************)
StartEvent(tag, attribs) == [callback |-> "start", tag |-> tag, attribs |-> attribs, data |-> <<>>]

EndEvent(tag) == [callback |-> "end", tag |-> tag, attribs |-> NoAttribs, data |-> <<>>]

DataEvent(data) == [callback |-> "data", tag |-> "", attribs |-> NoAttribs, data |-> data]

Feed(p, e) ==
    IF p.exception # NoException THEN p
    ELSE IF e.callback = "start" THEN Start(p, e.tag, e.attribs)
    ELSE IF e.callback = "end" THEN End(p)
    ELSE Data(p, e.data)

RECURSIVE FeedAll(_, _)
FeedAll(p, events) == IF events = <<>> THEN p ELSE FeedAll(Feed(p, Head(events)), Tail(events))

\* load_dat: the Dat DatParser.close() returns once the whole file was fed
load_dat(events) == FeedAll(NewDatParser, events).dat

(***************************************************************************)
(* verify.py: the .cue essential form                                      *)
(***************************************************************************)
CHDMAN_SUPPORTED_CUE_COMMANDS ==
    {<<"F", "I", "L", "E">>, <<"T", "R", "A", "C", "K">>, <<"P", "R", "E", "G", "A", "P">>,
     <<"I", "N", "D", "E", "X">>, <<"P", "O", "S", "T", "G", "A", "P">>}

\* The characters of the model at which str.splitlines() breaks a line
LineBreaks == {"\n", "\r", "\f"}

LowerCase == <<"a", "b", "c", "d", "e", "f", "g", "h", "i", "j", "k", "l", "m",
               "n", "o", "p", "q", "r", "s", "t", "u", "v", "w", "x", "y", "z">>

UpperCase == <<"A", "B", "C", "D", "E", "F", "G", "H", "I", "J", "K", "L", "M",
               "N", "O", "P", "Q", "R", "S", "T", "U", "V", "W", "X", "Y", "Z">>

UpperChar(c) ==
    IF \E i \in 1..26 : LowerCase[i] = c
    THEN UpperCase[CHOOSE i \in 1..26 : LowerCase[i] = c]
    ELSE c

LowerChar(c) ==
    IF \E i \in 1..26 : UpperCase[i] = c
    THEN LowerCase[CHOOSE i \in 1..26 : UpperCase[i] = c]
    ELSE c

\* str.upper(), str.lower()
Upper(s) == [i \in 1..Len(s) |-> UpperChar(s[i])]

Lower(s) == [i \in 1..Len(s) |-> LowerChar(s[i])]

\* str.splitlines(): "\r\n" is one break, and a final break opens no line
RECURSIVE SplitLines(_, _)
SplitLines(text, line) ==
    IF text = <<>> THEN (IF line = <<>> THEN <<>> ELSE <<line>>)
    ELSE IF Head(text) = "\r" /\ Len(text) >= 2 /\ text[2] = "\n"
        THEN <<line>> \o SplitLines(Tail(Tail(text)), <<>>)
    ELSE IF Head(text) \in LineBreaks THEN <<line>> \o SplitLines(Tail(text), <<>>)
    ELSE SplitLines(Tail(text), Append(line, Head(text)))

\* line.split(" ", 1)[0]
RECURSIVE BeforeFirstSpace(_)
BeforeFirstSpace(line) ==
    IF line = <<>> \/ Head(line) = " " THEN <<>>
    ELSE <<Head(line)>> \o BeforeFirstSpace(Tail(line))

RECURSIVE JoinLines(_)
JoinLines(lines) ==
    IF lines = <<>> THEN <<>>
    ELSE IF Len(lines) = 1 THEN lines[1]
    ELSE lines[1] \o <<"\n">> \o JoinLines(Tail(lines))

\* The test of a line without upper()
IsSupportedCueLineInUpperCaseOnly(line) == BeforeFirstSpace(line) \in CHDMAN_SUPPORTED_CUE_COMMANDS

IsSupportedCueLine(line) == Upper(BeforeFirstSpace(line)) \in CHDMAN_SUPPORTED_CUE_COMMANDS

strip_insignificant_whitespace_and_chdman_unsupported_commands_from_cue(cue_text) ==
    LET lines == SplitLines(cue_text, <<>>)
        stripped_cue_lines == [i \in 1..Len(lines) |-> Strip(lines[i])]
        supported_cue_lines == SelectSeq(stripped_cue_lines, IsSupportedCueLine)
    IN JoinLines(supported_cue_lines)

(***************************************************************************)
(* verify.py: verify_redump_dump_folder.  A dump folder entry is           *)
(* [name, is_file, content]; content is the file's bytes, its length the   *)
(* file's st_size.                                                         *)
(***************************************************************************)
CueVerificationResult ==
    {"NO_CUE_NEEDED", "GENERATED_CUE_VERIFIED_EXACTLY",
     "GENERATED_CUE_MATCHES_ESSENTIALS_FROM_EXTRA_CUE",
     "GENERATED_CUE_MISMATCH_WITH_NO_EXTRA_CUE_PROVIDED",
     "GENERATED_CUE_DOES_NOT_MATCH_ESSENTIALS_FROM_EXTRA_CUE"}

\* The file contents of the model: track data, the .cue of the Datfile, a .cue
\* that differs from it in a comment, in white space and in line ends only, and
\* a .cue with another FILE line.
TrackData == <<"\\xff", "\\x00">>

DatCue ==
    <<"R", "E", "M", " ", "x", "\r", "\n", "F", "I", "L", "E", " ", "a", "\r", "\n">>

AlikeCue == <<" ", "F", "I", "L", "E", " ", "a", "\n">>

OtherCue == <<"F", "I", "L", "E", " ", "b", "\n">>

Contents == <<TrackData, DatCue, AlikeCue, OtherCue>>

\* bytes.decode("UTF-8") raises UnicodeError on a byte no UTF-8 text holds
DecodesAsUtf8(bytes) == \A i \in 1..Len(bytes) : bytes[i] # "\\xff"

\* hashlib.sha1(bytes).hexdigest(): distinct contents have distinct digests
Sha1Digits == <<"0", "1", "2", "3", "4", "5", "6", "7", "8", "9", "a", "b", "c", "d", "e", "f">>

sha1hex(bytes) == Digest(Sha1Digits[CHOOSE i \in 1..Len(Contents) : Contents[i] = bytes])

\* pathlib: Path.suffix of a name of the model
Suffix(name) == IF Len(name) >= 2 THEN name[Len(name)] ELSE ""

\* name.lower() of a file name of the model
LowerName(name) ==
    [i \in 1..Len(name) |->
        IF name[i] = ".CUE" THEN ".cue" ELSE IF name[i] = ".ZIP" THEN ".zip" ELSE name[i]]

IsCueName(name) == name # <<>> /\ LowerName(name)[Len(name)] = ".cue"

\* bool(x) of None, of an object without __bool__ or __len__, of a list
Truthy(x) == x # None /\ (x.type = "list" => x.items # <<>>)

\* rom.game, game.roms: the Game object a ROM refers to
GameOf(d, rom) == CHOOSE g \in Range(d.games) : g.id = rom.game

Raised(type, message) ==
    [state |-> "raised", exception |-> Raise(type, message), result |-> None]

Returned(game, cue_verification_result) ==
    [state |-> "returned", exception |-> NoException,
     result |-> [type |-> "VerificationResult", game |-> game.id,
                 cue_verification_result |-> cue_verification_result]]

Running == [state |-> "running", exception |-> NoException, result |-> None]

LoopState(v, roms, cue) == [verification |-> v, verified_roms |-> roms, cue_verified |-> cue]

\* The body of "for dump_file_path in dump_folder.iterdir()", lines 92-132
VerifyDumpFile(d, roms, cue, dump_file) ==
    LET dump_file_is_cue == LowerName(<<Suffix(dump_file.name)>>) = <<".cue">>
        dump_file_sha1hex == sha1hex(dump_file.content)
        roms_with_matching_sha1 == DictGet(d.roms_by_sha1hex, dump_file_sha1hex)
        named == SelectSeq(roms_with_matching_sha1.items, LAMBDA r : r.name = dump_file.name)
        rom == named[1]
    IN IF ~dump_file.is_file
       THEN LoopState(Raised("VerificationException", "Unexpected non-file in dump folder"), roms, cue)
       ELSE IF ~Truthy(roms_with_matching_sha1)
       THEN IF dump_file_is_cue
            THEN LoopState(Running, roms, FALSE)
            ELSE LoopState(Raised("VerificationException",
                                  "SHA-1 of dump file doesn't match any file in the Dat"), roms, cue)
       ELSE IF roms_with_matching_sha1.type # "list"
       THEN LoopState(Raised("TypeError", "'ROM' object is not iterable"), roms, cue)
       ELSE IF named = <<>>
       THEN LoopState(Raised("VerificationException",
                             "Dump file found in Dat, but it should be named"), roms, cue)
       ELSE IF rom.size # Len(dump_file.content)
       THEN LoopState(Raised("VerificationException",
                             "Dump file found in Dat, but it has the wrong size"), roms, cue)
       ELSE IF Len(roms) > 0 /\ rom.game # roms[1].game
       THEN LoopState(Raised("VerificationException", "Dump file is from another game"),
                      roms, cue \/ dump_file_is_cue)
       ELSE LoopState(Running, Append(roms, rom), cue \/ dump_file_is_cue)

\* An --extra-cue-source: a path that may exist, be a folder, a .zip or a file
Path(exists, is_dir, suffix, content, members) ==
    [type |-> "Path", exists |-> exists, is_dir |-> is_dir, suffix |-> suffix,
     content |-> content, members |-> members]

Member(members, name) == CHOOSE m \in members : m.name = name

\* Lines 156-207: the generated .cue against the extra .cue source
VerifyAgainstExtraCue(folder, source, game, game_cue_rom) ==
    LET in_folder_or_zip == \E m \in source.members : m.name = game_cue_rom.name
        is_zip == LowerName(<<source.suffix>>) = <<".zip">>
        extra_cue_bytes ==
            IF source.is_dir \/ is_zip
            THEN Member(source.members, game_cue_rom.name).content
            ELSE source.content
        in_dump == \E f \in folder : f.name = game_cue_rom.name /\ f.is_file
        dump_cue_bytes == (CHOOSE f \in folder : f.name = game_cue_rom.name).content
        mismatch == Returned(game, "GENERATED_CUE_MISMATCH_WITH_NO_EXTRA_CUE_PROVIDED")
    IN IF source.is_dir /\ ~in_folder_or_zip THEN mismatch
       ELSE IF ~source.exists
       THEN Raised("VerificationException", "Extra .cue file source doesn't exist")
       ELSE IF ~source.is_dir /\ is_zip /\ ~in_folder_or_zip THEN mismatch
       ELSE IF sha1hex(extra_cue_bytes) # game_cue_rom.sha1hex
       THEN Raised("VerificationException", "Provided extra .cue file doesn't match Datfile")
       ELSE IF ~in_dump THEN Raised("FileNotFoundError", "No such file or directory")
       ELSE IF ~DecodesAsUtf8(dump_cue_bytes)
       THEN Raised("VerificationException", "Failed to decode generated .cue file as UTF-8")
       ELSE IF ~DecodesAsUtf8(extra_cue_bytes)
       THEN Raised("VerificationException", "Failed to decode provided .cue file as UTF-8")
       ELSE IF strip_insignificant_whitespace_and_chdman_unsupported_commands_from_cue(dump_cue_bytes)
                = strip_insignificant_whitespace_and_chdman_unsupported_commands_from_cue(extra_cue_bytes)
       THEN Returned(game, "GENERATED_CUE_MATCHES_ESSENTIALS_FROM_EXTRA_CUE")
       ELSE Returned(game, "GENERATED_CUE_DOES_NOT_MATCH_ESSENTIALS_FROM_EXTRA_CUE")

\* Lines 134-207: what follows the loop over the folder
VerifyDumpAsAWhole(d, folder, source, roms, cue) ==
    LET game == GameOf(d, roms[1])
        cue_roms == SelectSeq(game.roms, LAMBDA r : IsCueName(r.name))
    IN IF Len(roms) = 0
       THEN Raised("VerificationException", "No game files found in dump folder")
       ELSE IF \E i \in 1..Len(game.roms) :
                  game.roms[i] \notin Range(roms) /\ ~IsCueName(game.roms[i].name)
       THEN Raised("VerificationException", "Game file is missing in dump")
       ELSE IF \E i \in 1..Len(roms) : roms[i] \notin Range(game.roms)
       THEN Raised("VerificationException",
                   "Dump has extra file that isn't associated with the game in the Dat")
       ELSE IF cue THEN Returned(game, "GENERATED_CUE_VERIFIED_EXACTLY")
       ELSE IF cue_roms = <<>> THEN Returned(game, "NO_CUE_NEEDED")
       ELSE IF ~Truthy(source)
       THEN Returned(game, "GENERATED_CUE_MISMATCH_WITH_NO_EXTRA_CUE_PROVIDED")
       ELSE VerifyAgainstExtraCue(folder, source, game, cue_roms[1])

(***************************************************************************)
(* The Datfiles, dump folders and extra .cue sources of the model          *)
(***************************************************************************)
RECURSIVE ToDecimal(_)
ToDecimal(n) ==
    IF n < 10 THEN <<Sha1Digits[n + 1]>> ELSE Append(ToDecimal(n \div 10), Sha1Digits[(n % 10) + 1])

RomElement(name, size, bytes) == [name |-> name, size |-> ToDecimal(size), sha1 |-> sha1hex(bytes)]

\* rom elements: two tracks of the same content, the .cue, a track of a wrong size
CatalogRoms ==
    {RomElement(<<"a", ".bin">>, Len(TrackData), TrackData),
     RomElement(<<"b", ".bin">>, Len(TrackData), TrackData),
     RomElement(<<"g", ".cue">>, Len(DatCue), DatCue),
     RomElement(<<"b", ".bin">>, Len(TrackData) + 1, TrackData)}

RECURSIVE RomEvents(_)
RomEvents(roms) ==
    IF roms = <<>> THEN <<>>
    ELSE <<StartEvent("rom", Head(roms)), EndEvent("rom")>> \o RomEvents(Tail(roms))

GameEvents(name, roms) ==
    <<StartEvent("game", [NoAttribs EXCEPT !.name = name])>> \o RomEvents(roms) \o <<EndEvent("game")>>

HeaderEvents(system) ==
    <<StartEvent("header", NoAttribs), StartEvent("name", NoAttribs), DataEvent(system),
      EndEvent("name"), EndEvent("header")>>

\* A Datfile of one Game, or of two: the second holds the rom elements after the
\* first split of them
Datfiles ==
    {<<StartEvent("datafile", NoAttribs)>> \o HeaderEvents(<<"Sony - PlayStation">>)
        \o GameEvents(<<"G1">>, SubSeq(roms, 1, split))
        \o (IF two THEN GameEvents(<<"G2">>, SubSeq(roms, split + 1, Len(roms))) ELSE <<>>)
        \o <<EndEvent("datafile")>> :
     <<roms, split, two>> \in
        {t \in SeqsUpTo(CatalogRoms, MaxCatalogRoms) \X (0..MaxCatalogRoms) \X BOOLEAN :
            IF t[3] THEN t[2] <= Len(t[1]) ELSE t[2] = Len(t[1])}}

FileNames == {<<"a", ".bin">>, <<"b", ".bin">>, <<"g", ".cue">>}

FolderEntries ==
    [name : FileNames, is_file : {TRUE}, content : Range(Contents)]
        \cup {[name |-> <<"sub">>, is_file |-> FALSE, content |-> <<>>]}

\* The names of a folder's entries differ
DumpFolders ==
    {folder \in SUBSET FolderEntries :
        /\ Cardinality(folder) <= MaxFiles
        /\ \A f, g \in folder : f.name = g.name => f = g}

ExtraCueSources ==
    {None,
     Path(TRUE, FALSE, ".cue", DatCue, {}),
     Path(TRUE, FALSE, ".cue", OtherCue, {}),
     Path(TRUE, TRUE, "", <<>>, {}),
     Path(TRUE, FALSE, ".zip", <<>>, {}),
     Path(TRUE, FALSE, ".zip", <<>>, {[name |-> <<"g", ".cue">>, content |-> DatCue]})}

(***************************************************************************)
(* Spec: verify_redump_dump_folder on a loaded Datfile.  iterdir() yields  *)
(* the entries in any order.                                               *)
(***************************************************************************)
Init ==
    /\ parser = NewDatParser
    /\ doc = "closed"
    /\ event = NoEvent
    /\ dat \in {load_dat(datfile) : datfile \in Datfiles}
    /\ dump_folder \in DumpFolders
    /\ extra_cue_source \in ExtraCueSources
    /\ iterdir = dump_folder
    /\ verified_roms = <<>>
    /\ cue_verified = FALSE
    /\ verification = Running
    /\ dump_cue_text = <<>>
    /\ extra_cue_text = <<>>
    /\ dump_cue_lines = <<>>
    /\ extra_cue_lines = <<>>
    /\ essentials = [dump |-> <<>>, extra |-> <<>>]
    /\ IdleGdi
    /\ IdleNormalize
    /\ IdleBatch
    /\ IdleCache
    /\ IdleChd

NextDumpFile ==
    /\ verification.state = "running"
    /\ \E dump_file \in iterdir :
          LET after == VerifyDumpFile(dat, verified_roms, cue_verified, dump_file)
          IN /\ iterdir' = iterdir \ {dump_file}
             /\ verified_roms' = after.verified_roms
             /\ cue_verified' = after.cue_verified
             /\ verification' = after.verification
    /\ UNCHANGED <<dat, dump_folder, extra_cue_source>>
    /\ UNCHANGED notVerifyVars

EndOfFolder ==
    /\ verification.state = "running"
    /\ iterdir = {}
    /\ verification' =
          VerifyDumpAsAWhole(dat, dump_folder, extra_cue_source, verified_roms, cue_verified)
    /\ UNCHANGED <<dat, dump_folder, extra_cue_source, iterdir, verified_roms, cue_verified>>
    /\ UNCHANGED notVerifyVars

Next == NextDumpFile \/ EndOfFolder

Spec == Init /\ [][Next]_vars

(***************************************************************************)
(* Claims about folder verification.  They are stated of the Datfile, the  *)
(* folder and the extra .cue source a run started with, and of how it      *)
(* ended.                                                                  *)
(***************************************************************************)
Done == verification.state \in {"returned", "raised"}

Verified(game, outcome) ==
    /\ verification.state = "returned"
    /\ verification.result.game = game.id
    /\ verification.result.cue_verification_result = outcome

RaisedVerificationError ==
    /\ verification.state = "raised"
    /\ verification.exception.type = "VerificationException"

\* The file has the name, the size and the SHA-1 the Datfile gives the ROM.
IsCopyOf(file, rom) ==
    /\ file.is_file
    /\ file.name = rom.name
    /\ Len(file.content) = rom.size
    /\ sha1hex(file.content) = rom.sha1hex

CatalogGames == Range(dat.games)

CueRomsOf(game) == {rom \in Range(game.roms) : IsCueName(rom.name)}

TrackRomsOf(game) == Range(game.roms) \ CueRomsOf(game)

\* No two ROMs of the Game share a name, and no ROM of another Game has the
\* name and SHA-1 of one of its ROMs: a file that copies one of its ROMs can
\* be matched to that ROM only.
Unambiguous(game) ==
    /\ \A i, j \in 1..Len(game.roms) : game.roms[i].name = game.roms[j].name => i = j
    /\ \A other \in CatalogGames \ {game} :
          \A rom \in Range(game.roms), rom2 \in Range(other.roms) :
              ~(rom.name = rom2.name /\ rom.sha1hex = rom2.sha1hex)

HoldsExactly(folder, roms) ==
    /\ \A file \in folder : \E rom \in roms : IsCopyOf(file, rom)
    /\ \A rom \in roms : \E file \in folder : IsCopyOf(file, rom)

HashInCatalog(file) ==
    \E game \in CatalogGames : \E rom \in Range(game.roms) : rom.sha1hex = sha1hex(file.content)

\* C1: a folder that holds exactly the ROMs of a Game that declares no .cue
\* ROM verifies as that Game with outcome NO_CUE_NEEDED.
C1_ExactFolderVerifies ==
    Done =>
        \A game \in CatalogGames :
            (/\ Unambiguous(game)
             /\ game.roms # <<>>
             /\ CueRomsOf(game) = {}
             /\ HoldsExactly(dump_folder, Range(game.roms)))
                => Verified(game, "NO_CUE_NEEDED")

\* C2: a folder of copies of ROMs of a Game that lacks a copy of one of its
\* ROMs that is no .cue raises VerificationError, and the missing-file error is
\* raised only when such a ROM is missing.
C2_MissingRomRaises ==
    Done =>
        /\ \A game \in CatalogGames :
              (/\ Unambiguous(game)
               /\ dump_folder # {}
               /\ \A file \in dump_folder : \E rom \in Range(game.roms) : IsCopyOf(file, rom)
               /\ \E rom \in TrackRomsOf(game) : \A file \in dump_folder : ~IsCopyOf(file, rom))
                  => RaisedVerificationError
        /\ verification.exception.message = "Game file is missing in dump"
              => \E rom \in TrackRomsOf(GameOf(dat, verified_roms[1])) : rom \notin Range(verified_roms)

\* C3: a file that is no .cue and whose hash is not in the Datfile raises
\* VerificationError; with a .cue file whose hash is not in the Datfile, the
\* other files exactly the ROMs of a Game that are no .cue, and no extra .cue
\* source, the outcome is GENERATED_CUE_MISMATCH_WITH_NO_EXTRA_CUE_PROVIDED.
C3_UnknownFile ==
    Done =>
        /\ (\E file \in dump_folder :
                file.is_file /\ ~IsCueName(file.name) /\ ~HashInCatalog(file))
              => RaisedVerificationError
        /\ \A game \in CatalogGames :
              (/\ Unambiguous(game)
               /\ extra_cue_source = None
               /\ CueRomsOf(game) # {}
               /\ TrackRomsOf(game) # {}
               /\ \E cue \in dump_folder :
                     /\ cue.is_file /\ IsCueName(cue.name) /\ ~HashInCatalog(cue)
                     /\ HoldsExactly(dump_folder \ {cue}, TrackRomsOf(game)))
                  => Verified(game, "GENERATED_CUE_MISMATCH_WITH_NO_EXTRA_CUE_PROVIDED")

\* The Games that declare a ROM the file copies
GamesOfFile(file) == {game \in CatalogGames : \E rom \in Range(game.roms) : IsCopyOf(file, rom)}

\* C4: a folder with two files that copy ROMs of different Games only raises
\* VerificationError, whatever the order the files are visited in.
C4_MixedFolderRaises ==
    Done =>
        ((\E f1, f2 \in dump_folder :
            /\ GamesOfFile(f1) # {}
            /\ GamesOfFile(f2) # {}
            /\ GamesOfFile(f1) \cap GamesOfFile(f2) = {}
            /\ \A file \in dump_folder : HashInCatalog(file))
          => RaisedVerificationError)

\* C6: every ROM of the Datfile is in the ROM list of exactly one Game, the one
\* its back-reference names, and verification never ends with the error of the
\* final check for a file that is not of the matched Game.
C6_OneGamePerRom ==
    /\ \A i, j \in 1..Len(dat.games) :
          /\ dat.games[i].id = dat.games[j].id => i = j
          /\ \A rom \in Range(dat.games[i].roms) :
                /\ rom.game = dat.games[i].id
                /\ rom \in Range(dat.games[j].roms) => i = j
    /\ \A h \in DOMAIN dat.roms_by_sha1hex :
          \E game \in CatalogGames :
              /\ dat.roms_by_sha1hex[h] \in Range(game.roms)
              /\ dat.roms_by_sha1hex[h].game = game.id
    /\ verification.exception.message
          # "Dump has extra file that isn't associated with the game in the Dat"

\* A run over a folder with files of both Games of a Datfile has ended.
C6_Witness ==
    /\ Done
    /\ Len(dat.games) = 2
    /\ \E f1, f2 \in dump_folder :
          /\ \E rom \in Range(dat.games[1].roms) : IsCopyOf(f1, rom)
          /\ \E rom \in Range(dat.games[2].roms) : IsCopyOf(f2, rom)
          /\ f1 # f2

\* The extra .cue source holds a .cue for the name
ReferenceFound(source, name) ==
    /\ source.exists
    /\ (source.is_dir \/ source.suffix = ".zip") => \E m \in source.members : m.name = name

ReferenceBytes(source, name) ==
    IF source.is_dir \/ source.suffix = ".zip"
    THEN Member(source.members, name).content
    ELSE source.content

\* The folder holds the tracks of the Game and, under the name of its .cue ROM,
\* a .cue of another hash
GeneratedCueDiffers(game) ==
    /\ Unambiguous(game)
    /\ TrackRomsOf(game) # {}
    /\ \E cue_rom \in CueRomsOf(game) : \E cue \in dump_folder :
          /\ cue.is_file /\ cue.name = cue_rom.name /\ ~HashInCatalog(cue)
          /\ HoldsExactly(dump_folder \ {cue}, TrackRomsOf(game))

\* C9: with an extra .cue source and a generated .cue that does not match the
\* Datfile, a reference of another hash than the Datfile's raises
\* VerificationError, a folder or .zip without the .cue gives outcome
\* GENERATED_CUE_MISMATCH_WITH_NO_EXTRA_CUE_PROVIDED, and an essentials outcome
\* is returned only with a reference of the Datfile's hash.
C9_ReferenceReconciliation ==
    (Done /\ extra_cue_source # None) =>
        \A game \in CatalogGames : GeneratedCueDiffers(game) =>
            \A cue_rom \in CueRomsOf(game) :
                /\ (/\ ReferenceFound(extra_cue_source, cue_rom.name)
                    /\ sha1hex(ReferenceBytes(extra_cue_source, cue_rom.name)) # cue_rom.sha1hex)
                      => RaisedVerificationError
                /\ (/\ extra_cue_source.is_dir \/ extra_cue_source.suffix = ".zip"
                    /\ ~ReferenceFound(extra_cue_source, cue_rom.name))
                      => Verified(game, "GENERATED_CUE_MISMATCH_WITH_NO_EXTRA_CUE_PROVIDED")
                /\ (\/ Verified(game, "GENERATED_CUE_MATCHES_ESSENTIALS_FROM_EXTRA_CUE")
                    \/ Verified(game, "GENERATED_CUE_DOES_NOT_MATCH_ESSENTIALS_FROM_EXTRA_CUE"))
                      => /\ ReferenceFound(extra_cue_source, cue_rom.name)
                         /\ sha1hex(ReferenceBytes(extra_cue_source, cue_rom.name)) = cue_rom.sha1hex

(***************************************************************************)
(* Claims about the parser                                                 *)
(***************************************************************************)
\* The Games of the parse: those of the Dat and the one being parsed.
GamesOf(p) ==
    (IF p.dat = None THEN {} ELSE Range(p.dat.games))
        \cup (IF p.game = None THEN {} ELSE {p.game})

RomsOf(p) == UNION {Range(g.roms) : g \in GamesOf(p)}

IndexedRoms(p) ==
    IF p.dat = None THEN {}
    ELSE {p.dat.roms_by_sha1hex[h] : h \in DOMAIN p.dat.roms_by_sha1hex}

EnteredRom ==
    /\ event.callback = "start"
    /\ parser.tag_path = <<"datafile", "game", "rom">>

\* A rom element was entered, wherever in the document
EnteredAnyRom == event.callback = "start" /\ event.tag = "rom"

\* C5: every parsed ROM is held by the hash index under its SHA-1, so a hash
\* shared by several ROMs maps to all of them (adding never replaces).
C5_EveryRomIndexed ==
    \A rom \in RomsOf(parser) :
        /\ rom.sha1hex \in DOMAIN parser.dat.roms_by_sha1hex
        /\ parser.dat.roms_by_sha1hex[rom.sha1hex] = rom

NestedInGame(path) ==
    /\ Len(path) >= 2
    /\ path[Len(path)] = "game"
    /\ \E i \in 1..(Len(path) - 1) : path[i] = "game"

\* C7: entering a game element nested in another game element, or a game
\* element of the root before a system name was seen, raises ParsingError.
C7_NestedOrHeaderlessGameFails ==
    (/\ event.callback = "start"
     /\ \/ NestedInGame(parser.tag_path)
        \/ parser.tag_path = <<"datafile", "game">> /\ parser.dat = None)
        => parser.exception.type = "DatParsingException"

IsSha1Hex(s) == Len(s) = Sha1HexLen /\ \A i \in 1..Len(s) : s[i] \in HexDigits

\* name non-empty, size a non-negative integer, sha1 40 hexadecimal characters
RomAsSpecified(name, size, sha1) == name # <<>> /\ size \in Nat /\ IsSha1Hex(sha1)

\* name non-empty, size any integer, sha1 non-empty
RomAsParsed(name, size, sha1) == name # <<>> /\ size \in Int /\ sha1 # <<>>

MaxCueLines == 2    \* lines of a .cue text

FileLine == <<"F", "I", "L", "E", " ", "a">>

LowerCaseFileLine == <<"f", "i", "l", "e", " ", "a">>

IndexLine == <<"I", "N", "D", "E", "X">>

\* FILE and its argument with a tab between them
TabbedFileLine == <<"F", "I", "L", "E", "\t", "a">>

RemLine == <<"R", "E", "M", " ", "x">>

CommandLines == {FileLine, LowerCaseFileLine, IndexLine}

OtherLines == {TabbedFileLine, RemLine, <<>>}

\* How a line is written: the whitespace around it and its line ending
Writings ==
    {[lead |-> <<>>, trail |-> <<>>, eol |-> <<"\n">>],
     [lead |-> <<" ", " ">>, trail |-> <<" ", " ">>, eol |-> <<"\r", "\n">>],
     [lead |-> <<"\t">>, trail |-> <<>>, eol |-> <<"\n">>],
     [lead |-> <<>>, trail |-> <<" ">>, eol |-> <<>>]}

WrittenLine(line, w) == w.lead \o line \o w.trail \o w.eol

\* The text is empty or ends with a line ending: what is written next is a new line
AtLineStart(text) == IF text = <<>> THEN TRUE ELSE text[Len(text)] = "\n"

Essentials(dump_text, extra_text) ==
    [dump |-> strip_insignificant_whitespace_and_chdman_unsupported_commands_from_cue(dump_text),
     extra |-> strip_insignificant_whitespace_and_chdman_unsupported_commands_from_cue(extra_text)]

InitCue ==
    /\ parser = NewDatParser
    /\ doc = "closed"
    /\ event = NoEvent
    /\ dat = None
    /\ dump_folder = {}
    /\ extra_cue_source = None
    /\ iterdir = {}
    /\ verified_roms = <<>>
    /\ cue_verified = FALSE
    /\ verification = [state |-> "idle"]
    /\ dump_cue_text = <<>>
    /\ extra_cue_text = <<>>
    /\ dump_cue_lines = <<>>
    /\ extra_cue_lines = <<>>
    /\ essentials = Essentials(<<>>, <<>>)
    /\ IdleGdi
    /\ IdleNormalize
    /\ IdleBatch
    /\ IdleCache
    /\ IdleChd

\* The same line in both texts, in the dump's .cue with any whitespace around
\* it and any line ending
WriteLine ==
    /\ Len(dump_cue_lines) < MaxCueLines
    /\ Len(extra_cue_lines) < MaxCueLines
    /\ AtLineStart(dump_cue_text)
    /\ \E line \in CommandLines \cup OtherLines, w \in Writings :
          /\ dump_cue_text' = dump_cue_text \o WrittenLine(line, w)
          /\ extra_cue_text' = extra_cue_text \o line \o <<"\n">>
          /\ dump_cue_lines' = Append(dump_cue_lines, line)
          /\ extra_cue_lines' = Append(extra_cue_lines, line)
    /\ essentials' = Essentials(dump_cue_text', extra_cue_text')
    /\ UNCHANGED notCueVars

\* A line that is no command of CHDMAN_SUPPORTED_CUE_COMMANDS followed by a
\* space or the end of the line, in the dump's .cue only
WriteOtherLine ==
    /\ Len(dump_cue_lines) < MaxCueLines
    /\ AtLineStart(dump_cue_text)
    /\ \E line \in OtherLines :
          /\ dump_cue_text' = dump_cue_text \o line \o <<"\n">>
          /\ dump_cue_lines' = Append(dump_cue_lines, line)
    /\ essentials' = Essentials(dump_cue_text', extra_cue_text)
    /\ UNCHANGED <<extra_cue_text, extra_cue_lines>>
    /\ UNCHANGED notCueVars

\* A command line in the extra .cue only
WriteCommandLine ==
    /\ Len(extra_cue_lines) < MaxCueLines
    /\ \E line \in CommandLines :
          /\ extra_cue_text' = extra_cue_text \o line \o <<"\n">>
          /\ extra_cue_lines' = Append(extra_cue_lines, line)
    /\ essentials' = Essentials(dump_cue_text, extra_cue_text')
    /\ UNCHANGED <<dump_cue_text, dump_cue_lines>>
    /\ UNCHANGED notCueVars

NextCue == WriteLine \/ WriteOtherLine \/ WriteCommandLine

SpecCue == InitCue /\ [][NextCue]_vars

(***************************************************************************)
(* Claims about the essential form                                         *)
(***************************************************************************)
\* The first word of a trimmed line: its text before the first whitespace
LeadingKeyword(line) ==
    IF \E i \in 1..Len(line) : line[i] \in Whitespace
    THEN SubSeq(line, 1, (CHOOSE i \in 1..Len(line) :
                            /\ line[i] \in Whitespace
                            /\ \A j \in 1..(i - 1) : line[j] \notin Whitespace) - 1)
    ELSE line

\* The text of a trimmed line before its first space character
TextBeforeSpace(line) ==
    IF \E i \in 1..Len(line) : line[i] = " "
    THEN SubSeq(line, 1, (CHOOSE i \in 1..Len(line) :
                            /\ line[i] = " "
                            /\ \A j \in 1..(i - 1) : line[j] # " ") - 1)
    ELSE line

SameIgnoringCase(s, t) == Lower(s) = Lower(t)

\* The first word of the line is a supported command, in either case
HasSupportedKeyword(line) ==
    \E command \in CHDMAN_SUPPORTED_CUE_COMMANDS : SameIgnoringCase(LeadingKeyword(line), command)

\* The text of the line before its first space is a supported command, in
\* either case
HasSupportedTextBeforeSpace(line) ==
    \E command \in CHDMAN_SUPPORTED_CUE_COMMANDS : SameIgnoringCase(TextBeforeSpace(line), command)

\* C10 as stated: the essential form of a text is its trimmed lines whose
\* leading keyword is FILE, TRACK, PREGAP, INDEX or POSTGAP, in order; two
\* texts have equal essential forms exactly when their sequences of such lines
\* are equal, whatever the whitespace around lines, the line endings and the
\* other lines.
C10_EssentialFormAsStated ==
    /\ essentials.dump = JoinLines(SelectSeq(dump_cue_lines, HasSupportedKeyword))
    /\ essentials.extra = JoinLines(SelectSeq(extra_cue_lines, HasSupportedKeyword))
    /\ essentials.dump = essentials.extra
          <=> SelectSeq(dump_cue_lines, HasSupportedKeyword)
                = SelectSeq(extra_cue_lines, HasSupportedKeyword)

\* C10 amended: the essential form of a text is its trimmed lines whose text
\* before the first space character (the whole line when it has no space) is,
\* in either case, FILE, TRACK, PREGAP, INDEX or POSTGAP, in order and joined by
\* "\n"; two texts have equal essential forms exactly when their sequences of
\* such lines are equal, whatever the whitespace around lines, the line endings
\* and the other lines.
C10_EssentialForm ==
    /\ essentials.dump = JoinLines(SelectSeq(dump_cue_lines, HasSupportedTextBeforeSpace))
    /\ essentials.extra = JoinLines(SelectSeq(extra_cue_lines, HasSupportedTextBeforeSpace))
    /\ essentials.dump = essentials.extra
          <=> SelectSeq(dump_cue_lines, HasSupportedTextBeforeSpace)
                = SelectSeq(extra_cue_lines, HasSupportedTextBeforeSpace)

\* The dump's .cue is "  FILE a  \r\n" and a REM line, the extra .cue is
\* "FILE a\n": both have the essential form "FILE a".
C10_Witness ==
    /\ dump_cue_lines = <<FileLine, RemLine>>
    /\ extra_cue_lines = <<FileLine>>
    /\ SubSeq(dump_cue_text, 1, 12) = <<" ", " ">> \o FileLine \o <<" ", " ", "\r", "\n">>
    /\ essentials.dump = FileLine
    /\ essentials.extra = FileLine

(***************************************************************************)
(* convert.py: convert_gdi_to_cue.  A track line of the .gdi that matches  *)
(* gdi_line_pattern is the numbers int() reads from its groups; a line of  *)
(* the .cue is a record of what is written.  What was written before an    *)
(* exception stays in the .cue.                                            *)
(***************************************************************************)
MaxTracks == 3      \* track lines of a .gdi, and the track numbers in them

HighDensityAreaLba == 45000

GdiTrackLine(track_number, lba, gdi_track_mode, sector_size) ==
    [matches |-> TRUE, track_number |-> track_number, lba |-> lba,
     gdi_track_mode |-> gdi_track_mode, sector_size |-> sector_size]

\* A line gdi_line_pattern does not match
MalformedGdiLine == [matches |-> FALSE]

\* f"{n:0{width}d}"
RECURSIVE ZeroPadded(_, _)
ZeroPadded(digits, width) ==
    IF Len(digits) >= width THEN digits ELSE ZeroPadded(<<"0">> \o digits, width)

\* get_redump_bin_filename_format(game_name, number_of_tracks).format(track_number)
RedumpBinFilename(number_of_tracks, track_number) ==
    LET track_number_digits_needed == IF number_of_tracks >= 10 THEN 2 ELSE 1
    IN [stem |-> "game_name", track |-> ZeroPadded(ToDecimal(track_number), track_number_digits_needed),
        suffix |-> ".bin"]

AreaMarkerLine(area) == [command |-> "REM", text |-> area]

CueFileLine(filename, track_number) ==
    [command |-> "FILE", filename |-> filename, track_number |-> track_number, type |-> "BINARY"]

CueTrackLine(track_number, cue_track_mode) ==
    [command |-> "TRACK", number |-> ZeroPadded(ToDecimal(track_number), 2), mode |-> cue_track_mode]

CueIndexLine(number, time) == [command |-> "INDEX", number |-> number, time |-> time]

ConversionRunning == [state |-> "running", exception |-> NoException]

ConversionReturned == [state |-> "returned", exception |-> NoException]

ConversionError(message) ==
    [state |-> "raised", exception |-> Raise("ConversionException", message)]

\* The LBA checks of track 1 and of track 3, and the area markers
AreaMarkerWithoutCheckOfTrack3(cue, line) ==
    IF line.track_number = 1 /\ line.lba # 0
    THEN [cue_file |-> cue, conversion |-> ConversionError("Unexpected LBA of first track")]
    ELSE LET cue1 == IF line.track_number = 1
                     THEN Append(cue, AreaMarkerLine("SINGLE-DENSITY AREA")) ELSE cue
         IN [cue_file |-> IF line.track_number = 3
                         THEN Append(cue1, AreaMarkerLine("HIGH-DENSITY AREA")) ELSE cue1,
             conversion |-> ConversionRunning]

WriteAreaMarker(cue, line) ==
    IF line.track_number = 1 /\ line.lba # 0
    THEN [cue_file |-> cue, conversion |-> ConversionError("Unexpected LBA of first track")]
    ELSE LET cue1 == IF line.track_number = 1
                     THEN Append(cue, AreaMarkerLine("SINGLE-DENSITY AREA")) ELSE cue
         IN IF line.track_number = 3 /\ line.lba # HighDensityAreaLba
            THEN [cue_file |-> cue1, conversion |-> ConversionError("Unexpected LBA of track 3")]
            ELSE [cue_file |-> IF line.track_number = 3
                               THEN Append(cue1, AreaMarkerLine("HIGH-DENSITY AREA")) ELSE cue1,
                  conversion |-> ConversionRunning]

\* cue_track_mode with MODE1 for the sector size 2352 only
CueTrackModeWithMode2For2048(gdi_track_mode, sector_size) ==
    IF gdi_track_mode = 0 THEN [name |-> "AUDIO", sector_size |-> <<>>]
    ELSE IF gdi_track_mode = 4
        THEN IF sector_size = 2352
             THEN [name |-> "MODE1", sector_size |-> ZeroPadded(ToDecimal(sector_size), 4)]
             ELSE [name |-> "MODE2", sector_size |-> ZeroPadded(ToDecimal(sector_size), 4)]
    ELSE None

\* cue_track_mode, None for a track mode that is an error
CueTrackMode(gdi_track_mode, sector_size) ==
    IF gdi_track_mode = 0 THEN [name |-> "AUDIO", sector_size |-> <<>>]
    ELSE IF gdi_track_mode = 4
        THEN IF sector_size = 2048 \/ sector_size = 2352
             THEN [name |-> "MODE1", sector_size |-> ZeroPadded(ToDecimal(sector_size), 4)]
             ELSE [name |-> "MODE2", sector_size |-> ZeroPadded(ToDecimal(sector_size), 4)]
    ELSE None

Audio == [name |-> "AUDIO", sector_size |-> <<>>]

\* The INDEX lines with the pregap of the last track for every track but the
\* first of an area
IndexLinesWithLongPregap(number_of_tracks, track_number, cue_track_mode) ==
    IF cue_track_mode = Audio
    THEN <<CueIndexLine("00", "00:00:00"), CueIndexLine("01", "00:02:00")>>
    ELSE IF track_number = 1 \/ track_number = 3 THEN <<CueIndexLine("01", "00:00:00")>>
    ELSE <<CueIndexLine("00", "00:00:00"), CueIndexLine("01", "00:03:00")>>

IndexLines(number_of_tracks, track_number, cue_track_mode) ==
    IF cue_track_mode = Audio
    THEN <<CueIndexLine("00", "00:00:00"), CueIndexLine("01", "00:02:00")>>
    ELSE IF track_number = 1 \/ track_number = 3 THEN <<CueIndexLine("01", "00:00:00")>>
    ELSE IF track_number = number_of_tracks
        THEN <<CueIndexLine("00", "00:00:00"), CueIndexLine("01", "00:03:00")>>
    ELSE <<CueIndexLine("00", "00:00:00"), CueIndexLine("01", "00:02:00")>>

\* The body of the loop over gdi_track_lines
ConvertTrackLine(number_of_tracks, cue, line) ==
    IF ~line.matches
    THEN [cue_file |-> cue,
          conversion |-> ConversionError("Line in .gdi file didn't match expected format")]
    ELSE LET marked == WriteAreaMarker(cue, line)
             cue_track_mode == CueTrackMode(line.gdi_track_mode, line.sector_size)
         IN IF marked.conversion.state = "raised" THEN marked
            ELSE IF cue_track_mode = None
                THEN [cue_file |-> marked.cue_file,
                      conversion |-> ConversionError("Unexpected .gdi track mode")]
            ELSE [cue_file |->
                      marked.cue_file
                          \o <<CueFileLine(RedumpBinFilename(number_of_tracks, line.track_number),
                                           line.track_number),
                               CueTrackLine(line.track_number, cue_track_mode)>>
                          \o IndexLines(number_of_tracks, line.track_number, cue_track_mode),
                  conversion |-> ConversionRunning]

\* The track lines of the model: AUDIO, MODE1/2048, MODE2/2336 and a track
\* mode that is an error, at LBA 0 and at LBA 45000
GdiTrackModes == {<<0, 2352>>, <<4, 2048>>, <<4, 2336>>, <<1, 2048>>}

GdiLines ==
    {GdiTrackLine(n, lba, m[1], m[2]) :
        n \in 1..MaxTracks, lba \in {0, HighDensityAreaLba}, m \in GdiTrackModes}
        \cup {MalformedGdiLine}

(***************************************************************************)
(* SpecGdi: convert_gdi_to_cue on any .gdi of up to MaxTracks track lines. *)
(***************************************************************************)
InitGdi ==
    /\ parser = NewDatParser
    /\ doc = "closed"
    /\ event = NoEvent
    /\ dat = None
    /\ dump_folder = {}
    /\ extra_cue_source = None
    /\ iterdir = {}
    /\ verified_roms = <<>>
    /\ cue_verified = FALSE
    /\ verification = [state |-> "idle"]
    /\ dump_cue_text = <<>>
    /\ extra_cue_text = <<>>
    /\ dump_cue_lines = <<>>
    /\ extra_cue_lines = <<>>
    /\ essentials = [dump |-> <<>>, extra |-> <<>>]
    /\ gdi_track_count \in 0..MaxTracks
    /\ gdi_track_lines = <<>>
    /\ cue_file = <<>>
    /\ conversion = ConversionRunning
    /\ IdleNormalize
    /\ IdleBatch
    /\ IdleCache
    /\ IdleChd

\* One pass of the loop: the next track line of the .gdi, whatever it is
ReadTrackLine ==
    /\ conversion.state = "running"
    /\ Len(gdi_track_lines) < gdi_track_count
    /\ \E line \in GdiLines :
          LET after == ConvertTrackLine(gdi_track_count, cue_file, line)
          IN /\ gdi_track_lines' = Append(gdi_track_lines, line)
             /\ cue_file' = after.cue_file
             /\ conversion' = after.conversion
    /\ UNCHANGED gdi_track_count
    /\ UNCHANGED notGdiVars

\* The loop is over and the .cue is closed
CloseCueFile ==
    /\ conversion.state = "running"
    /\ Len(gdi_track_lines) = gdi_track_count
    /\ conversion' = ConversionReturned
    /\ UNCHANGED <<gdi_track_count, gdi_track_lines, cue_file>>
    /\ UNCHANGED notGdiVars

NextGdi == ReadTrackLine \/ CloseCueFile

SpecGdi == InitGdi /\ [][NextGdi]_vars

(***************************************************************************)
(* Claims about convert_gdi_to_cue                                         *)
(***************************************************************************)
ConversionRaisedConversionError ==
    /\ conversion.state = "raised"
    /\ conversion.exception.type = "ConversionException"

SingleDensityMarker == AreaMarkerLine("SINGLE-DENSITY AREA")

HighDensityMarker == AreaMarkerLine("HIGH-DENSITY AREA")

IsFileLineOfTrack(cue_line, track_number) ==
    cue_line.command = "FILE" /\ cue_line.track_number = track_number

IsMarkerLine(cue_line) == cue_line.command = "REM"

IsIndexLine(cue_line) == cue_line.command = "INDEX"

\* Track 1 not at LBA 0, or track 3 not at LBA 45000
HasUnexpectedLba(line) ==
    /\ line.matches
    /\ \/ line.track_number = 1 /\ line.lba # 0
       \/ line.track_number = 3 /\ line.lba # 45000

\* C11: a track line numbered 1 whose LBA is not 0, or numbered 3 whose LBA is
\* not 45000, raises ConversionError; in the .cue of a conversion that returns,
\* the single-density marker is right before every FILE line of track 1, the
\* high-density marker right before every FILE line of track 3, and a marker
\* is nowhere else.
C11_AreaMarkers ==
    /\ (\E i \in DOMAIN gdi_track_lines : HasUnexpectedLba(gdi_track_lines[i]))
          => ConversionRaisedConversionError
    /\ conversion.state = "returned" =>
          \A k \in DOMAIN cue_file :
              /\ IsFileLineOfTrack(cue_file[k], 1) => (k > 1 /\ cue_file[k - 1] = SingleDensityMarker)
              /\ IsFileLineOfTrack(cue_file[k], 3) => (k > 1 /\ cue_file[k - 1] = HighDensityMarker)
              /\ IsMarkerLine(cue_file[k]) =>
                    /\ k < Len(cue_file)
                    /\ \/ cue_file[k] = SingleDensityMarker /\ IsFileLineOfTrack(cue_file[k + 1], 1)
                       \/ cue_file[k] = HighDensityMarker /\ IsFileLineOfTrack(cue_file[k + 1], 3)

\* The tracks 1, 2 and 3 were converted, or track 3 at LBA 0 was refused
C11_Witness ==
    \/ /\ conversion.state = "returned"
       /\ Len(gdi_track_lines) = 3
       /\ \A i \in 1..3 : gdi_track_lines[i].track_number = i
       /\ Len(SelectSeq(cue_file, IsMarkerLine)) = 2
    \/ /\ ConversionRaisedConversionError
       /\ Len(gdi_track_lines) = 3
       /\ gdi_track_lines[3] = GdiTrackLine(3, 0, 4, 2048)

\* The .gdi of one track line: track 1, a MODE1/2048 track at LBA 0
SingleMode1Track == <<GdiTrackLine(1, 0, 4, 2048)>>

\* C12 as stated: the .cue of a single MODE1/2048 track at LBA 0 has the one
\* INDEX line INDEX 01 00:00:00 and no area marker.
C12_SingleTrackAsStated ==
    (conversion.state = "returned" /\ gdi_track_lines = SingleMode1Track) =>
        /\ SelectSeq(cue_file, IsIndexLine) = <<CueIndexLine("01", "00:00:00")>>
        /\ SelectSeq(cue_file, IsMarkerLine) = <<>>

\* C12 amended: the .cue of a single MODE1/2048 track numbered 1 at LBA 0 is
\* the single-density marker, the FILE line, TRACK 01 MODE1/2048 and the one
\* INDEX line INDEX 01 00:00:00; it has no high-density marker.
C12_SingleTrack ==
    (conversion.state = "returned" /\ gdi_track_lines = SingleMode1Track) =>
        /\ Len(cue_file) = 4
        /\ cue_file[1] = SingleDensityMarker
        /\ IsFileLineOfTrack(cue_file[2], 1)
        /\ cue_file[3].command = "TRACK"
        /\ cue_file[3].number = <<"0", "1">>
        /\ cue_file[3].mode = [name |-> "MODE1", sector_size |-> <<"2", "0", "4", "8">>]
        /\ cue_file[4] = CueIndexLine("01", "00:00:00")

C12_Witness == conversion.state = "returned" /\ gdi_track_lines = SingleMode1Track

IsTrackLineAt(k) == cue_file[k].command = "TRACK"

\* Where the TRACK lines of the .cue are, in order
TrackLinePositions == SelectSeq([k \in 1..Len(cue_file) |-> k], IsTrackLineAt)

RECURSIVE IndexRunAt(_)
IndexRunAt(k) ==
    IF k <= Len(cue_file) /\ IsIndexLine(cue_file[k]) THEN <<cue_file[k]>> \o IndexRunAt(k + 1)
    ELSE <<>>

\* The INDEX lines of the i-th track of the .cue
EmittedIndexLines(i) == IndexRunAt(TrackLinePositions[i] + 1)

PregapOf(time) == <<CueIndexLine("00", "00:00:00"), CueIndexLine("01", time)>>

MaxBins == 2        \* track numbers of the .bin files binmerge leaves

\* The systems, in lower case, line 23 takes for GD-ROM systems
GdRomSystems ==
    {<<"s", "e", "g", "a", " ", "-", " ", "d", "r", "e", "a", "m", "c", "a", "s", "t">>,
     <<"d", "c">>,
     <<"a", "r", "c", "a", "d", "e", " ", "-", " ", "s", "e", "g", "a", " ", "-", " ", "c",
       "h", "i", "h", "i", "r", "o">>,
     <<"c", "h", "i", "h", "i", "r", "o">>,
     <<"a", "r", "c", "a", "d", "e", " ", "-", " ", "s", "e", "g", "a", " ", "-", " ", "n",
       "a", "o", "m", "i">>,
     <<"n", "a", "o", "m", "i">>,
     <<"a", "r", "c", "a", "d", "e", " ", "-", " ", "s", "e", "g", "a", " ", "-", " ", "n",
       "a", "o", "m", "i", " ", "2">>,
     <<"n", "a", "o", "m", "i", "2">>,
     <<"a", "r", "c", "a", "d", "e", " ", "-", " ", "n", "a", "m", "c", "o", " ", "-", " ",
       "s", "e", "g", "a", " ", "-", " ", "n", "i", "n", "t", "e", "n", "d", "o", " ", "-", " ",
       "t", "r", "i", "f", "o", "r", "c", "e">>,
     <<"t", "r", "f">>}

\* `system and system.lower() in [...]`: the empty string is as falsy as None
IsGdRomSystem(system) == system # <<>> /\ Lower(system) \in GdRomSystems

TrackBin(stem, track) == [stem |-> stem, track |-> track, suffix |-> ".bin"]

DumpFile(stem, suffix) == [stem |-> stem, track |-> 0, suffix |-> suffix]

\* fnmatch: "*", "?" and "[seq]" (the names of the model hold no "!" and "-")
RECURSIVE FnMatch(_, _)
FnMatch(pattern, name) ==
    IF pattern = <<>> THEN name = <<>>
    ELSE IF Head(pattern) = "*"
        THEN IF FnMatch(Tail(pattern), name) THEN TRUE
             ELSE IF name = <<>> THEN FALSE ELSE FnMatch(pattern, Tail(name))
    ELSE IF Head(pattern) = "?"
        THEN IF name = <<>> THEN FALSE ELSE FnMatch(Tail(pattern), Tail(name))
    ELSE IF Head(pattern) = "[" /\ \E j \in 3..Len(pattern) : pattern[j] = "]"
        THEN LET close == CHOOSE j \in 3..Len(pattern) :
                            /\ pattern[j] = "]"
                            /\ \A k \in 3..(j - 1) : pattern[k] # "]"
             IN IF name = <<>> THEN FALSE
                ELSE /\ \E k \in 2..(close - 1) : pattern[k] = Head(name)
                     /\ FnMatch(SubSeq(pattern, close + 1, Len(pattern)), Tail(name))
    ELSE IF name = <<>> THEN FALSE
    ELSE Head(pattern) = Head(name) /\ FnMatch(Tail(pattern), Tail(name))

\* dump_path.glob(f"{dump_name} (Track *).bin")
GlobTrackBins(files, dump_name) ==
    {f \in files : f.suffix = ".bin" /\ f.track # 0 /\ FnMatch(dump_name, f.stem)}

BinCueFileLine(filename) == [command |-> "FILE", filename |-> filename, type |-> "BINARY"]

\* read_text().replace('FILE "<original>"', 'FILE "<single>"'), written with
\* newline="\r\n"
ReplaceFileReference(text, original, single) ==
    [newline |-> "\r\n",
     lines |-> [i \in 1..Len(text.lines) |->
                   IF text.lines[i].command = "FILE" /\ text.lines[i].filename = original
                   THEN BinCueFileLine(single) ELSE text.lines[i]]]

\* The lines the pattern of line 70 matches
IsoCompatibleCue(dump_name) ==
    <<BinCueFileLine(DumpFile(dump_name, ".bin")),
      CueTrackLine(1, CueTrackMode(4, 2048)),
      CueIndexLine("01", "00:00:00")>>

NormalizationAt(state) == [state |-> state, exception |-> NoException, result |-> None]

NormalizationRaised(type, message) ==
    [state |-> "raised", exception |-> Raise(type, message), result |-> None]

\* Lines 56-68: the files and the .cue after the single track's .bin is renamed
RenameSingleTrackBin(files, text, dump_name) ==
    LET original_bin_name == TrackBin(dump_name, 1)
        single_track_bin_name == DumpFile(dump_name, ".bin")
    IN IF original_bin_name \notin files
       THEN [dump_files |-> files, cue_file_text |-> text,
             normalization |-> NormalizationRaised("FileNotFoundError", "No such file or directory")]
       ELSE [dump_files |-> (files \ {original_bin_name}) \cup {single_track_bin_name},
             cue_file_text |-> ReplaceFileReference(text, original_bin_name, single_track_bin_name),
             normalization |-> NormalizationAt("renamed")]

(***************************************************************************)
(* The dumps of the model: the .bin files of any tracks of 1..MaxBins, and *)
(* the .cue chdman writes for them                                         *)
(***************************************************************************)
DumpNames == {<<"g">>, <<"[", "g", "]">>}

\* The systems of the model no GD-ROM branch is taken for
Systems == {<<>>, <<"p", "s", "x">>, <<"S", "S">>, <<"D", "C">>}

RECURSIVE SortedTracks(_)
SortedTracks(tracks) ==
    IF tracks = {} THEN <<>>
    ELSE LET first == CHOOSE n \in tracks : \A m \in tracks : n <= m
         IN <<first>> \o SortedTracks(tracks \ {first})

\* FILE, TRACK and INDEX lines of a track: the first track as given, any
\* other an AUDIO track
CueBlock(dump_name, track, first_track) ==
    <<BinCueFileLine(TrackBin(dump_name, track))>>
        \o (IF track = 1
            THEN <<CueTrackLine(1, first_track.mode)>> \o first_track.indexes
            ELSE <<CueTrackLine(track, Audio),
                   CueIndexLine("00", "00:00:00"), CueIndexLine("01", "00:02:00")>>)

RECURSIVE CueBlocks(_, _, _)
CueBlocks(dump_name, tracks, first_track) ==
    IF tracks = <<>> THEN <<>>
    ELSE CueBlock(dump_name, Head(tracks), first_track)
            \o CueBlocks(dump_name, Tail(tracks), first_track)

FirstTracks ==
    [mode : {CueTrackMode(4, 2048), CueTrackMode(4, 2352)},
     indexes : {<<CueIndexLine("01", "00:00:00")>>,
                <<CueIndexLine("00", "00:00:00"), CueIndexLine("01", "00:02:00")>>}]

CueHeaders == {<<>>, <<[command |-> "REM", text |-> "x"]>>}

ConvertedDumps ==
    {[name |-> dump_name,
      system |-> system,
      files |-> {TrackBin(dump_name, n) : n \in tracks} \cup {DumpFile(dump_name, ".cue")},
      cue_file_text |-> [newline |-> "\n",
                         lines |-> header \o CueBlocks(dump_name, SortedTracks(tracks), first_track)]] :
        dump_name \in DumpNames, system \in {sys \in Systems : ~IsGdRomSystem(sys)},
        tracks \in SUBSET (1..MaxBins), first_track \in FirstTracks, header \in CueHeaders}

(***************************************************************************)
(* SpecNormalize: normalize_redump_bincue_dump on a converted dump         *)
(***************************************************************************)
InitNormalize ==
    /\ IdleDat
    /\ IdleVerify
    /\ IdleCue
    /\ IdleGdi
    /\ IdleBatch
    /\ IdleCache
    /\ IdleChd
    /\ converted_dump \in ConvertedDumps
    /\ dump_files = converted_dump.files
    /\ cue_file_text = converted_dump.cue_file_text
    /\ has_multiple_tracks = FALSE
    /\ normalization = NormalizationAt("called")

\* Lines 53-68
CollapseSingleFile ==
    /\ normalization.state = "called"
    /\ has_multiple_tracks' = (Cardinality(GlobTrackBins(dump_files, converted_dump.name)) > 1)
    /\ IF has_multiple_tracks'
       THEN /\ normalization' = NormalizationAt("renamed")
            /\ UNCHANGED <<dump_files, cue_file_text>>
       ELSE LET after == RenameSingleTrackBin(dump_files, cue_file_text, converted_dump.name)
            IN /\ dump_files' = after.dump_files
               /\ cue_file_text' = after.cue_file_text
               /\ normalization' = after.normalization
    /\ UNCHANGED converted_dump
    /\ UNCHANGED notNormalizeVars

\* Lines 70-78, and the return
CollapseToIso ==
    /\ normalization.state = "renamed"
    /\ LET is_cue_iso_compatible ==
               /\ ~has_multiple_tracks
               /\ cue_file_text.lines = IsoCompatibleCue(converted_dump.name)
       IN IF is_cue_iso_compatible
          THEN /\ dump_files' =
                     (dump_files \ {DumpFile(converted_dump.name, ".bin"),
                                    DumpFile(converted_dump.name, ".cue")})
                         \cup {DumpFile(converted_dump.name, ".iso")}
               /\ cue_file_text' = None
          ELSE UNCHANGED <<dump_files, cue_file_text>>
    /\ normalization' = NormalizationAt("returned")
    /\ UNCHANGED <<converted_dump, has_multiple_tracks>>
    /\ UNCHANGED notNormalizeVars

NextNormalize == CollapseSingleFile \/ CollapseToIso

SpecNormalize == InitNormalize /\ [][NextNormalize]_vars

(***************************************************************************)
(* Claims about normalize_redump_bincue_dump                               *)
(***************************************************************************)
NormalizationFinished == normalization.state \in {"returned", "raised"}

\* The track files binmerge left in the dump folder
TrackBinsOfDump == {f \in converted_dump.files : f.suffix = ".bin" /\ f.track # 0}

\* The .cue of the converted dump with its reference to "(Track 1).bin" rewritten
CueWithBareFileName ==
    [i \in 1..Len(converted_dump.cue_file_text.lines) |->
        IF converted_dump.cue_file_text.lines[i] = BinCueFileLine(TrackBin(converted_dump.name, 1))
        THEN BinCueFileLine(DumpFile(converted_dump.name, ".bin"))
        ELSE converted_dump.cue_file_text.lines[i]]

\* C14: when the normalizer has finished, a dump of one track file
\* "(Track 1).bin" holds that file under the bare name and a .cue that refers
\* to it, or, when that .cue is exactly the FILE/TRACK 01 MODE1/2048/INDEX 01
\* 00:00:00 block, holds only the .iso; a dump of more than one track file
\* has the files and the .cue it had
C14_NormalizeSteps ==
    NormalizationFinished =>
        /\ TrackBinsOfDump = {TrackBin(converted_dump.name, 1)} =>
              IF CueWithBareFileName = IsoCompatibleCue(converted_dump.name)
              THEN /\ dump_files = {DumpFile(converted_dump.name, ".iso")}
                   /\ cue_file_text = None
              ELSE /\ dump_files = {DumpFile(converted_dump.name, ".bin"),
                                    DumpFile(converted_dump.name, ".cue")}
                   /\ cue_file_text # None
                   /\ cue_file_text.lines = CueWithBareFileName
        /\ Cardinality(TrackBinsOfDump) > 1 =>
              /\ dump_files = converted_dump.files
              /\ cue_file_text = converted_dump.cue_file_text

\* C15: the normalizer returns a boolean, and whatever it raises is a
\* ConversionException
C15_ReturnsWhetherNormalized ==
    /\ normalization.state = "returned" => normalization.result \in BOOLEAN
    /\ normalization.state = "raised" => normalization.exception.type = "ConversionException"

(***************************************************************************)
(* verify.py: verify_dumps.  A path given is a file, known by its suffix,  *)
(* or a folder, known by the suffixes of the files os.walk finds in it, in *)
(* the order it yields them.  dump_path = [input, file] is file number     *)
(* `file` of the folder given as number `input`, or the file given itself  *)
(* when `file` is 0.                                                       *)
(***************************************************************************)
MaxDumps == 3       \* files the paths given lead to (a folder counts as one at least)

DumpSuffixes == {<<".", "C", "H", "D">>, <<".", "r", "v", "z">>, <<".", "t", "x", "t">>}

GivenFile(suffix) == [is_dir |-> FALSE, suffix |-> suffix]

GivenFolder(filenames) == [is_dir |-> TRUE, filenames |-> filenames]

RECURSIVE SeqsOfLength(_, _)
SeqsOfLength(S, n) ==
    IF n = 0 THEN {<<>>} ELSE {<<x>> \o rest : x \in S, rest \in SeqsOfLength(S, n - 1)}

DumpsOf(path) == IF path.is_dir /\ path.filenames # <<>> THEN Len(path.filenames) ELSE 1

\* The paths that lead to n files at most
GivenPaths(n) ==
    {GivenFile(suffix) : suffix \in DumpSuffixes}
        \cup {GivenFolder(filenames) :
                filenames \in UNION {SeqsOfLength(DumpSuffixes, k) : k \in 0..n}}

RECURSIVE PathLists(_)
PathLists(n) ==
    IF n = 0 THEN {<<>>}
    ELSE {<<>>} \cup UNION {{<<path>> \o rest : rest \in PathLists(n - DumpsOf(path))} :
                              path \in GivenPaths(n)}

DumpPath(input, file) == [input |-> input, file |-> file]

\* How verify_chd and verify_rvz end: with the Game, or with an exception
\* (TypeError stands for every exception that is neither of the two caught)
DumpOutcomes == {"Game", "VerificationException", "ConversionException", "TypeError"}

VerifiedGame(dump_path) == [type |-> "Game", path |-> dump_path]

DumpError(type, dump_path) == [type |-> type, path |-> dump_path]

\* Lines 236-248, with only VerificationException caught
VerifyDumpWithoutConversionExceptionCaught(games, errs, dump_path, suffix, error_if_unsupported, outcome) ==
    LET suffix_lower == Lower(suffix)
    IN IF suffix_lower \in {<<".", "c", "h", "d">>, <<".", "r", "v", "z">>}
       THEN IF outcome = "Game"
            THEN [verified_games |-> Append(games, VerifiedGame(dump_path)),
                  errors |-> errs, exception |-> NoException]
            ELSE IF outcome = "VerificationException"
            THEN [verified_games |-> games,
                  errors |-> Append(errs, DumpError(outcome, dump_path)),
                  exception |-> NoException]
            ELSE [verified_games |-> games, errors |-> errs,
                  exception |-> Raise(outcome, "")]
       ELSE IF error_if_unsupported
       THEN [verified_games |-> games,
             errors |-> Append(errs, DumpError("VerificationException", dump_path)),
             exception |-> NoException]
       ELSE [verified_games |-> games, errors |-> errs, exception |-> NoException]

\* Lines 236-248: verify_dump_if_format_is_supported, `outcome` being how
\* verify_chd or verify_rvz ends for dump_path
verify_dump_if_format_is_supported(games, errs, dump_path, suffix, error_if_unsupported, outcome) ==
    LET suffix_lower == Lower(suffix)
    IN IF suffix_lower \in {<<".", "c", "h", "d">>, <<".", "r", "v", "z">>}
       THEN IF outcome = "Game"
            THEN [verified_games |-> Append(games, VerifiedGame(dump_path)),
                  errors |-> errs, exception |-> NoException]
            ELSE IF outcome \in {"VerificationException", "ConversionException"}
            THEN [verified_games |-> games,
                  errors |-> Append(errs, DumpError(outcome, dump_path)),
                  exception |-> NoException]
            ELSE [verified_games |-> games, errors |-> errs,
                  exception |-> Raise(outcome, "")]
       ELSE IF error_if_unsupported
       THEN [verified_games |-> games,
             errors |-> Append(errs, DumpError("VerificationException", dump_path)),
             exception |-> NoException]
       ELSE [verified_games |-> games, errors |-> errs, exception |-> NoException]

BatchAt(state, input, file, exception) ==
    [state |-> state, input |-> input, file |-> file, exception |-> exception]

(***************************************************************************)
(* SpecBatch: verify_dumps.  batch.input is the path the outer loop is at, *)
(* batch.file the number of files of that folder the inner loops have      *)
(* passed.  The loops are those of one thread: a step that can be taken is *)
(* taken.                                                                  *)
(***************************************************************************)
InitBatch ==
    /\ IdleDat
    /\ IdleVerify
    /\ IdleCue
    /\ IdleGdi
    /\ IdleNormalize
    /\ IdleCache
    /\ IdleChd
    /\ dump_file_or_folder_paths \in PathLists(MaxDumps)
    /\ verified_games = <<>>
    /\ errors = <<>>
    /\ batch = BatchAt("running", 1, 0, NoException)

\* What a call of verify_dump_if_format_is_supported leaves: the lists, and
\* the loops one file further or left by the exception
AfterDump(after, input, file) ==
    /\ verified_games' = after.verified_games
    /\ errors' = after.errors
    /\ batch' = IF after.exception = NoException
                THEN BatchAt("running", input, file, NoException)
                ELSE BatchAt("raised", batch.input, batch.file, after.exception)

\* Line 258
VerifyGivenFile ==
    /\ batch.state = "running"
    /\ batch.input <= Len(dump_file_or_folder_paths)
    /\ LET path == dump_file_or_folder_paths[batch.input]
       IN /\ ~path.is_dir
          /\ \E outcome \in DumpOutcomes :
                AfterDump(verify_dump_if_format_is_supported(
                              verified_games, errors, DumpPath(batch.input, 0),
                              path.suffix, TRUE, outcome),
                          batch.input + 1, 0)
    /\ UNCHANGED dump_file_or_folder_paths
    /\ UNCHANGED notBatchVars

\* Lines 252-255
VerifyFileOfFolder ==
    /\ batch.state = "running"
    /\ batch.input <= Len(dump_file_or_folder_paths)
    /\ LET path == dump_file_or_folder_paths[batch.input]
       IN /\ path.is_dir
          /\ batch.file < Len(path.filenames)
          /\ \E outcome \in DumpOutcomes :
                AfterDump(verify_dump_if_format_is_supported(
                              verified_games, errors, DumpPath(batch.input, batch.file + 1),
                              path.filenames[batch.file + 1], FALSE, outcome),
                          batch.input, batch.file + 1)
    /\ UNCHANGED dump_file_or_folder_paths
    /\ UNCHANGED notBatchVars

\* Line 252: os.walk has no more to yield
LeaveFolder ==
    /\ batch.state = "running"
    /\ batch.input <= Len(dump_file_or_folder_paths)
    /\ LET path == dump_file_or_folder_paths[batch.input]
       IN /\ path.is_dir
          /\ batch.file = Len(path.filenames)
    /\ batch' = BatchAt("running", batch.input + 1, 0, NoException)
    /\ UNCHANGED <<dump_file_or_folder_paths, verified_games, errors>>
    /\ UNCHANGED notBatchVars

\* Line 260
ReturnLists ==
    /\ batch.state = "running"
    /\ batch.input > Len(dump_file_or_folder_paths)
    /\ batch' = BatchAt("returned", batch.input, 0, NoException)
    /\ UNCHANGED <<dump_file_or_folder_paths, verified_games, errors>>
    /\ UNCHANGED notBatchVars

NextBatch == VerifyGivenFile \/ VerifyFileOfFolder \/ LeaveFolder \/ ReturnLists

SpecBatch == InitBatch /\ [][NextBatch]_vars /\ WF_vars(NextBatch)

(***************************************************************************)
(* Claims about verify_dumps                                               *)
(***************************************************************************)
\* The files the paths given lead to
DumpPaths ==
    UNION {IF dump_file_or_folder_paths[i].is_dir
           THEN {DumpPath(i, j) : j \in 1..Len(dump_file_or_folder_paths[i].filenames)}
           ELSE {DumpPath(i, 0)} : i \in 1..Len(dump_file_or_folder_paths)}

SuffixOf(dump_path) ==
    IF dump_path.file = 0 THEN dump_file_or_folder_paths[dump_path.input].suffix
    ELSE dump_file_or_folder_paths[dump_path.input].filenames[dump_path.file]

IsSupportedDump(dump_path) ==
    Lower(SuffixOf(dump_path)) \in {<<".", "c", "h", "d">>, <<".", "r", "v", "z">>}

ComesBefore(p, q) == p.input < q.input \/ (p.input = q.input /\ p.file < q.file)

\* The loops have passed dump_path: the call made for it has returned
Attempted(dump_path) ==
    \/ dump_path.input < batch.input
    \/ dump_path.input = batch.input /\ dump_path.file # 0 /\ dump_path.file <= batch.file

EntriesOf(dump_path) ==
    Cardinality({k \in 1..Len(verified_games) : verified_games[k].path = dump_path})
        + Cardinality({k \in 1..Len(errors) : errors[k].path = dump_path})

InOrderOfPaths(entries) ==
    \A k, l \in 1..Len(entries) : k < l => ComesBefore(entries[k].path, entries[l].path)

BatchEnded == batch.state \in {"returned", "raised"}

C16_Entries ==
    /\ \A e \in Range(errors) : e.type \in {"VerificationException", "ConversionException"}
    /\ batch.state = "raised" =>
          batch.exception.type \notin {"VerificationException", "ConversionException"}
    /\ batch.state = "returned" => \A p \in DumpPaths : Attempted(p)
    /\ InOrderOfPaths(verified_games) /\ InOrderOfPaths(errors)
    /\ \A p \in DumpPaths :
          IF ~Attempted(p)
          THEN EntriesOf(p) = 0
          ELSE IF p.file = 0
          THEN /\ EntriesOf(p) = 1
               /\ ~IsSupportedDump(p) => DumpError("VerificationException", p) \in Range(errors)
          ELSE EntriesOf(p) = (IF IsSupportedDump(p) THEN 1 ELSE 0)

\* C16: verify_dumps goes through the paths in order and ends; a
\* VerificationException or ConversionException is appended to errors and
\* the next file is verified, any other exception ends the call; every file
\* given and every .chd or .rvz file of a folder given that was verified has
\* one entry in verified_games or errors, a file given of another suffix
\* a VerificationException in errors, another file of a folder no entry
C16_EveryDumpAttempted == [](C16_Entries) /\ <>(BatchEnded)

C16_Witness ==
    /\ batch.state = "returned"
    /\ \E p, q, r \in DumpPaths :
          /\ p.file = 0 /\ DumpError("VerificationException", p) \in Range(errors)
          /\ ComesBefore(p, q) /\ ComesBefore(q, r)
          /\ q.file # 0 /\ ~IsSupportedDump(q)
          /\ EntriesOf(r) = 1

(***************************************************************************)
(* cache.py.  The table "cache" is the set of its rows [name, size, time,  *)
(* data]; column data holds the text json.dumps made, or a SHA-1.  A dump  *)
(* file is [parent, name], and file_stats[path] what path.stat() returns.  *)
(***************************************************************************)
MaxStat == 2        \* largest st_mtime_ns of a file

FileSizes == {1, 2}

CachePaths == {[parent |-> "x", name |-> "a.chd"], [parent |-> "x", name |-> "b.rvz"]}

Stats == [st_size : FileSizes, st_mtime_ns : 1..MaxStat]

\* json.dumps(value): the text, which json.loads reads back as the value
\* (the values are dicts and lists of str and int)
JsonDumps(value) == [kind |-> "json", value |-> value, text |-> <<>>]

\* A text that is no JSON document: a SHA-1 in hexadecimal digits
PlainText(text) == [kind |-> "text", value |-> None, text |-> text]

CacheRow(name, size, time, data) == [name |-> name, size |-> size, time |-> time, data |-> data]

\* INSERT INTO without OR REPLACE and without the PRIMARY KEY
InsertWithoutReplace(table, row) == table \cup {row}

\* INSERT OR REPLACE INTO cache, name being the PRIMARY KEY
InsertOrReplace(table, row) == {r \in table : r.name # row.name} \cup {row}

\* SELECT size, time, data FROM cache WHERE name = ?; fetchone()
FetchOne(table, name) ==
    IF \E r \in table : r.name = name THEN CHOOSE r \in table : r.name = name ELSE None

\* Lines 31-34: the dict cache_chd stores
CachedData(game, cue_verification_result) ==
    [cue_verification_result |-> cue_verification_result,
     name |-> game.name,
     roms |-> [k \in 1..Len(game.roms) |->
                  [name |-> game.roms[k].name, size |-> game.roms[k].size,
                   sha1 |-> game.roms[k].sha1hex]]]

\* next((x for x in items if x.name == name), None)
FirstNamed(items, name) ==
    IF \E k \in 1..Len(items) : items[k].name = name
    THEN items[CHOOSE k \in 1..Len(items) :
                 /\ items[k].name = name
                 /\ \A j \in 1..(k - 1) : items[j].name # name]
    ELSE None

get_matching_game_from_dat(cached_data, d) ==
    LET cached_game_name == cached_data.name
        cached_roms == cached_data.roms
        dat_game == FirstNamed(d.games, cached_game_name)
    IN IF dat_game = None THEN None
       ELSE IF Len(cached_roms) # Len(dat_game.roms) THEN None
       ELSE IF \A k \in 1..Len(cached_roms) :
                  LET dat_rom == FirstNamed(dat_game.roms, cached_roms[k].name)
                  IN /\ dat_rom # None
                     /\ cached_roms[k].size = dat_rom.size
                     /\ cached_roms[k].sha1 = dat_rom.sha1hex
            THEN dat_game
       ELSE None

\* What a call leaves in `lookup`: the call, its path, the size and time it
\* read from the file, the row it fetched or the data it wrote, and how it ended
CacheCall(call, path, stat, row, data, state, result) ==
    [call |-> call, path |-> path, size |-> stat.st_size, time |-> stat.st_mtime_ns,
     row |-> row, data |-> data, state |-> state, result |-> result]

NoGame == [game |-> None, cue_verification_result |-> None]

get_cached_chd(table, stats, chd_path, d) ==
    LET stat == stats[chd_path]
        result == FetchOne(table, chd_path.name)
        call(state, returned) ==
            CacheCall("get_cached_chd", chd_path, stat, result, None, state, returned)
    IN IF result = None THEN call("returned", NoGame)
       ELSE IF stat.st_size # result.size THEN call("returned", NoGame)
       ELSE IF stat.st_mtime_ns # result.time THEN call("returned", NoGame)
       ELSE IF result.data.kind # "json" THEN call("raised", NoGame)
       ELSE LET cached_data == result.data.value
                matched_game == get_matching_game_from_dat(cached_data, d)
            IN IF matched_game = None THEN call("returned", NoGame)
               ELSE call("returned",
                         [game |-> matched_game,
                          cue_verification_result |-> cached_data.cue_verification_result])

\* get_cached_rvz that compares the size alone
GetCachedRvzWithoutTimeCheck(table, stats, rvz_path) ==
    LET stat == stats[rvz_path]
        result == FetchOne(table, rvz_path.name)
        call(returned) ==
            CacheCall("get_cached_rvz", rvz_path, stat, result, None, "returned", returned)
    IN IF result = None THEN call(None)
       ELSE IF stat.st_size # result.size THEN call(None)
       ELSE call(result.data)

get_cached_rvz(table, stats, rvz_path) ==
    LET stat == stats[rvz_path]
        result == FetchOne(table, rvz_path.name)
        call(returned) ==
            CacheCall("get_cached_rvz", rvz_path, stat, result, None, "returned", returned)
    IN IF result = None THEN call(None)
       ELSE IF stat.st_size # result.size THEN call(None)
       ELSE IF stat.st_mtime_ns # result.time THEN call(None)
       ELSE call(result.data)

(***************************************************************************)
(* The Dats of the model: no game, a game "G" of up to MaxCatalogRoms of   *)
(* the ROMs below, or a game "H" and then a game "G" of no ROM             *)
(***************************************************************************)
RomChoices ==
    {[name |-> <<"a">>, size |-> 1, sha1hex |-> Digest("1")],
     [name |-> <<"a">>, size |-> 2, sha1hex |-> Digest("1")],
     [name |-> <<"a">>, size |-> 1, sha1hex |-> Digest("2")],
     [name |-> <<"b">>, size |-> 1, sha1hex |-> Digest("1")]}

\* The Game with the ROMs given, as DatParser builds it
GameWithRoms(id, name, roms) ==
    LET game == Game(id, name)
    IN [game EXCEPT !.roms = [k \in 1..Len(roms) |->
                                 ROM(MaxCatalogRoms * id + k, roms[k].name, roms[k].size,
                                     roms[k].sha1hex, game)]]

RECURSIVE IndexBySha1hex(_, _)
IndexBySha1hex(index, roms) ==
    IF roms = <<>> THEN index
    ELSE IndexBySha1hex(DictSet(index, Head(roms).sha1hex, Head(roms)), Tail(roms))

RECURSIVE RomsOfGames(_)
RomsOfGames(games) ==
    IF games = <<>> THEN <<>> ELSE Head(games).roms \o RomsOfGames(Tail(games))

DatWithGames(games) ==
    [Dat(<<"s">>) EXCEPT !.games = games,
                         !.roms_by_sha1hex = IndexBySha1hex(<<>>, RomsOfGames(games))]

GamesG == {GameWithRoms(2, <<"G">>, roms) :
             roms \in UNION {SeqsOfLength(RomChoices, n) : n \in 0..MaxCatalogRoms}}

ReplayDats ==
    {DatWithGames(<<>>)}
        \cup {DatWithGames(<<g>>) : g \in GamesG}
        \cup {DatWithGames(<<GameWithRoms(1, <<"H">>, <<>>), g>>) : g \in {h \in GamesG : h.roms = <<>>}}

\* A Dat of one game of one ROM
CacheDat ==
    DatWithGames(<<GameWithRoms(2, <<"G">>, <<CHOOSE r \in RomChoices : r.name = <<"b">> >>)>>)

CueVerificationResults == {"GENERATED_CUE_VERIFIED_EXACTLY", "NO_CUE_NEEDED"}

Sha1s == {Digest("1")}

(***************************************************************************)
(* The calls of cache.py, and what happens to the files between them       *)
(***************************************************************************)
\* Lines 26-39
CacheChd(paths, results) ==
    /\ \E chd_path \in paths, game \in Range(cache_dat.games),
          cue_verification_result \in results :
          LET stat == file_stats[chd_path]
              data_json == JsonDumps(CachedData(game, cue_verification_result))
          IN /\ cache_table' = InsertOrReplace(cache_table,
                                   CacheRow(chd_path.name, stat.st_size, stat.st_mtime_ns, data_json))
             /\ lookup' = CacheCall("cache_chd", chd_path, stat, None, data_json, "returned", None)
    /\ UNCHANGED <<file_stats, cache_dat>>
    /\ UNCHANGED notCacheVars

\* Lines 42-51
CacheRvz ==
    /\ \E rvz_path \in CachePaths, sha1 \in Sha1s :
          LET stat == file_stats[rvz_path]
          IN /\ cache_table' = InsertOrReplace(cache_table,
                                   CacheRow(rvz_path.name, stat.st_size, stat.st_mtime_ns,
                                            PlainText(sha1)))
             /\ lookup' = CacheCall("cache_rvz", rvz_path, stat, None, PlainText(sha1),
                                    "returned", None)
    /\ UNCHANGED <<file_stats, cache_dat>>
    /\ UNCHANGED notCacheVars

\* Lines 76-98
GetCachedChd(paths) ==
    /\ \E chd_path \in paths :
          lookup' = get_cached_chd(cache_table, file_stats, chd_path, cache_dat)
    /\ UNCHANGED <<cache_table, file_stats, cache_dat>>
    /\ UNCHANGED notCacheVars

\* Lines 101-119
GetCachedRvz ==
    /\ \E rvz_path \in CachePaths :
          lookup' = get_cached_rvz(cache_table, file_stats, rvz_path)
    /\ UNCHANGED <<cache_table, file_stats, cache_dat>>
    /\ UNCHANGED notCacheVars

\* A file is written again: its size, its modification time or both change
ChangeFile ==
    /\ \E path \in CachePaths, stat \in Stats :
          /\ stat # file_stats[path]
          /\ file_stats' = [file_stats EXCEPT ![path] = stat]
    /\ UNCHANGED <<cache_table, cache_dat, lookup>>
    /\ UNCHANGED notCacheVars

\* Another run, with another Datfile
LoadDat ==
    /\ \E d \in ReplayDats :
          /\ d # cache_dat
          /\ cache_dat' = d
    /\ UNCHANGED <<cache_table, file_stats, lookup>>
    /\ UNCHANGED notCacheVars

NoCall == [call |-> "none"]

InitCache ==
    /\ IdleDat
    /\ IdleVerify
    /\ IdleCue
    /\ IdleGdi
    /\ IdleNormalize
    /\ IdleBatch
    /\ IdleChd
    /\ cache_table = {}
    /\ file_stats = [path \in CachePaths |-> [st_size |-> 1, st_mtime_ns |-> 1]]
    /\ cache_dat = CacheDat
    /\ lookup = NoCall

NextCache ==
    \/ CacheChd(CachePaths, CueVerificationResults)
    \/ CacheRvz
    \/ GetCachedChd(CachePaths)
    \/ GetCachedRvz
    \/ ChangeFile

SpecCache == InitCache /\ [][NextCache]_vars

(***************************************************************************)
(* SpecReplay: get_cached_chd of one file that does not change, with the   *)
(* Dat of the run that cached it and the Dats of later runs                *)
(***************************************************************************)
ReplayPaths == {[parent |-> "x", name |-> "a.chd"]}

InitReplay ==
    /\ IdleDat
    /\ IdleVerify
    /\ IdleCue
    /\ IdleGdi
    /\ IdleNormalize
    /\ IdleBatch
    /\ IdleChd
    /\ cache_table = {}
    /\ file_stats = [path \in CachePaths |-> [st_size |-> 1, st_mtime_ns |-> 1]]
    /\ cache_dat \in ReplayDats
    /\ lookup = NoCall

NextReplay ==
    CacheChd(ReplayPaths, {"GENERATED_CUE_VERIFIED_EXACTLY"}) \/ GetCachedChd(ReplayPaths) \/ LoadDat

SpecReplay == InitReplay /\ [][NextReplay]_vars

(***************************************************************************)
(* Claims about the cache                                                  *)
(***************************************************************************)
IsLookup(c) == c.call \in {"get_cached_chd", "get_cached_rvz"}

IsWrite(c) == c.call \in {"cache_chd", "cache_rvz"}

\* The lookup returned what was cached
IsHit(c) ==
    /\ IsLookup(c)
    /\ c.state = "returned"
    /\ IF c.call = "get_cached_chd" THEN c.result.game # None ELSE c.result # None

\* The lookup returned None
IsMiss(c) ==
    /\ IsLookup(c)
    /\ c.state = "returned"
    /\ IF c.call = "get_cached_chd" THEN c.result.game = None ELSE c.result = None

\* The table has a row of the name of path, of the size and time path has
StoredEntryIsCurrent(table, stats, path) ==
    \E r \in table :
        /\ r.name = path.name
        /\ r.size = stats[path].st_size
        /\ r.time = stats[path].st_mtime_ns

\* C17: whenever get_cached_chd or get_cached_rvz returns what was cached
\* for a file, the row of the file's name has the size and the modification
\* time the file has at that call; so a lookup after the file was cached and
\* its time or size then changed returns None
C17_HitOnlyIfUnchanged ==
    [][(lookup' # lookup /\ IsHit(lookup')) => 
          StoredEntryIsCurrent(cache_table', file_stats', lookup'.path)]_vars

\* A lookup returned None for a file whose row has its size and another time
C17_Witness ==
    /\ IsMiss(lookup)
    /\ lookup.row # None
    /\ lookup.row.size = lookup.size
    /\ lookup.row.time # lookup.time

\* The ROMs of a list as name, size and hash
RomSet(roms) ==
    {[name |-> roms[k].name, size |-> roms[k].size, sha1 |-> roms[k].sha1hex] : k \in 1..Len(roms)}

\* The Dat has a Game of the name cached whose ROMs are those cached
SnapshotIsLive(cached_data, d) ==
    \E g \in Range(d.games) :
        /\ g.name = cached_data.name
        /\ RomSet(g.roms) = Range(cached_data.roms)

\* C18: whenever get_cached_chd returns a Game and an outcome, the outcome
\* is the one cached and the Dat of the call has a Game of the name cached
\* whose ROMs are, in name, size and hash, the ROMs cached
C18_ReplayOnlyIfSameRoms ==
    [][(lookup' # lookup /\ lookup'.call = "get_cached_chd" /\ IsHit(lookup')) =>
          /\ lookup'.row.data.kind = "json"
          /\ lookup'.result.cue_verification_result
                = lookup'.row.data.value.cue_verification_result
          /\ SnapshotIsLive(lookup'.row.data.value, cache_dat')]_vars

AtMostOneRecordPerName == \A r, q \in cache_table : r.name = q.name => r = q

\* C19: the table holds one row per name at most; cache_chd and cache_rvz
\* leave as the row of the file's name the size and time of the file and the
\* data of the call, and leave the rows of the other names as they were; no
\* other call changes the table
C19_Upserts ==
    /\ [](AtMostOneRecordPerName)
    /\ [][IF lookup' # lookup /\ IsWrite(lookup')
          THEN LET path == lookup'.path
               IN /\ {r \in cache_table' : r.name = path.name}
                        = {CacheRow(path.name, file_stats[path].st_size,
                                    file_stats[path].st_mtime_ns, lookup'.data)}
                  /\ {r \in cache_table' : r.name # path.name}
                        = {r \in cache_table : r.name # path.name}
          ELSE cache_table' = cache_table]_vars

\* Both names have a row, written at different times of the files, and the
\* call made last wrote the row of the file changed since
C19_Witness ==
    /\ Cardinality(cache_table) = 2
    /\ IsWrite(lookup)
    /\ lookup.time = MaxStat
    /\ \E r, q \in cache_table :
          /\ r.name = lookup.path.name /\ r.time = lookup.time /\ r.data = lookup.data
          /\ q.name # r.name /\ q.time # r.time

(***************************************************************************)
(* verify.py: verify_chd.  The conversion and verify_redump_dump_folder    *)
(* are taken by the ways they end: the conversion returns or raises        *)
(* ConversionException, verify_redump_dump_folder returns a                *)
(* VerificationResult or raises.                                           *)
(***************************************************************************)
AllCueVerificationResults ==
    {"NO_CUE_NEEDED", "GENERATED_CUE_VERIFIED_EXACTLY",
     "GENERATED_CUE_MATCHES_ESSENTIALS_FROM_EXTRA_CUE",
     "GENERATED_CUE_MISMATCH_WITH_NO_EXTRA_CUE_PROVIDED",
     "GENERATED_CUE_DOES_NOT_MATCH_ESSENTIALS_FROM_EXTRA_CUE"}

\* The outcomes verify_redump_dump_folder has for an extra_cue_source: the
\* two that compare essentials need one
CueVerificationResultsWith(extra_cue_source_given) ==
    IF extra_cue_source_given THEN AllCueVerificationResults
    ELSE AllCueVerificationResults
            \ {"GENERATED_CUE_MATCHES_ESSENTIALS_FROM_EXTRA_CUE",
               "GENERATED_CUE_DOES_NOT_MATCH_ESSENTIALS_FROM_EXTRA_CUE"}

ChdGames == {Game(1, <<"G1">>), Game(2, <<"G2">>)}

VerificationResult(game, cue_verification_result) ==
    [type |-> "VerificationResult", game |-> game,
     cue_verification_result |-> cue_verification_result]

\* How the lines 42-65 end
ChdReturns(game) == [state |-> "returned", exception |-> NoException, result |-> game]

ChdRaises(type, message) ==
    [state |-> "raised", exception |-> Raise(type, message), result |-> None]

\* Lines 42-65, with an error for a .cue that matches in its essentials only
CuePolicyWithEssentialsMatchAnError(verification_result, allow_cue_mismatches) ==
    IF verification_result.cue_verification_result
          \in {"NO_CUE_NEEDED", "GENERATED_CUE_VERIFIED_EXACTLY"}
    THEN ChdReturns(verification_result.game)
    ELSE IF allow_cue_mismatches THEN ChdReturns(verification_result.game)
    ELSE ChdRaises("VerificationException", ".cue does not match Datfile")

\* Lines 42-65
CuePolicy(verification_result, allow_cue_mismatches) ==
    IF verification_result.cue_verification_result
          \in {"NO_CUE_NEEDED", "GENERATED_CUE_VERIFIED_EXACTLY"}
    THEN ChdReturns(verification_result.game)
    ELSE IF verification_result.cue_verification_result
              = "GENERATED_CUE_MATCHES_ESSENTIALS_FROM_EXTRA_CUE"
    THEN ChdReturns(verification_result.game)
    ELSE IF verification_result.cue_verification_result
              = "GENERATED_CUE_MISMATCH_WITH_NO_EXTRA_CUE_PROVIDED"
    THEN IF allow_cue_mismatches THEN ChdReturns(verification_result.game)
         ELSE ChdRaises("VerificationException", ".cue does not match Datfile")
    ELSE IF verification_result.cue_verification_result
              = "GENERATED_CUE_DOES_NOT_MATCH_ESSENTIALS_FROM_EXTRA_CUE"
    THEN IF allow_cue_mismatches THEN ChdReturns(verification_result.game)
         ELSE ChdRaises("VerificationException",
                        ".cue does not match Datfile or essential structure from extra .cue source")
    ELSE ChdRaises("Exception", "Unhandled CueVerificationResult value")

(***************************************************************************)
(* SpecChd: one call of verify_chd                                         *)
(***************************************************************************)
InitChd ==
    /\ IdleDat
    /\ IdleVerify
    /\ IdleCue
    /\ IdleGdi
    /\ IdleNormalize
    /\ IdleBatch
    /\ IdleCache
    /\ chd_verification \in
          [state : {"called"},
           show_command_output : BOOLEAN,
           allow_cue_mismatches : BOOLEAN,
           extra_cue_source_given : BOOLEAN,
           redump_dump_folder_exists : {FALSE},
           verification_result : {None},
           exception : {NoException},
           result : {None}]

\* After a step of verify_chd: an exception leaves the with block, which
\* removes the temporary directory
ChdEnds(ending) ==
    chd_verification' =
        [chd_verification EXCEPT !.state = ending.state,
                                 !.exception = ending.exception,
                                 !.result = ending.result,
                                 !.redump_dump_folder_exists = FALSE]

\* Line 37
MakeTemporaryDirectory ==
    /\ chd_verification.state = "called"
    /\ chd_verification' = [chd_verification EXCEPT !.state = "in_folder",
                                                    !.redump_dump_folder_exists = TRUE]
    /\ UNCHANGED notChdVars

\* Line 39
ConvertChd ==
    /\ chd_verification.state = "in_folder"
    /\ \/ chd_verification' = [chd_verification EXCEPT !.state = "converted"]
       \/ ChdEnds(ChdRaises("ConversionException", "Failed to convert .chd using chdman"))
    /\ UNCHANGED notChdVars

\* Line 40
VerifyFolder ==
    /\ chd_verification.state = "converted"
    /\ \/ \E game \in ChdGames,
             cue_verification_result \in
                CueVerificationResultsWith(chd_verification.extra_cue_source_given) :
             chd_verification' =
                [chd_verification EXCEPT
                    !.state = "verified",
                    !.verification_result = VerificationResult(game, cue_verification_result)]
       \/ \E type \in {"VerificationException", "TypeError"} : ChdEnds(ChdRaises(type, ""))
    /\ UNCHANGED notChdVars

\* Lines 42-65
ApplyCuePolicy ==
    /\ chd_verification.state = "verified"
    /\ ChdEnds(CuePolicy(chd_verification.verification_result,
                         chd_verification.allow_cue_mismatches))
    /\ UNCHANGED notChdVars

NextChd == MakeTemporaryDirectory \/ ConvertChd \/ VerifyFolder \/ ApplyCuePolicy

SpecChd == InitChd /\ [][NextChd]_vars

(***************************************************************************)
(* Claims about verify_chd                                                 *)
(***************************************************************************)
\* EXACT and NOT_NEEDED, ESSENTIALS_MATCH, MISMATCH_NO_REFERENCE,
\* ESSENTIALS_MISMATCH: least to most concerning
Severity(cue_verification_result) ==
    IF cue_verification_result \in {"NO_CUE_NEEDED", "GENERATED_CUE_VERIFIED_EXACTLY"} THEN 0
    ELSE IF cue_verification_result = "GENERATED_CUE_MATCHES_ESSENTIALS_FROM_EXTRA_CUE" THEN 1
    ELSE IF cue_verification_result = "GENERATED_CUE_MISMATCH_WITH_NO_EXTRA_CUE_PROVIDED" THEN 2
    ELSE 3

IsFatal(game, cue_verification_result, allow_cue_mismatches) ==
    CuePolicy(VerificationResult(game, cue_verification_result), allow_cue_mismatches).state
        = "raised"

ChdPolicyApplied ==
    /\ chd_verification.state \in {"returned", "raised"}
    /\ chd_verification.verification_result # None

\* C20: once verify_redump_dump_folder has returned an outcome, verify_chd
\* returns the Game for NO_CUE_NEEDED, VERIFIED_EXACTLY and
\* MATCHES_ESSENTIALS; for the two mismatches it raises
\* VerificationException without allow_cue_mismatches and returns the Game
\* with it; an outcome at least as concerning as a fatal one is fatal, and
\* what is returned without the option is returned with it
C20_FatalityPolicy ==
    ChdPolicyApplied =>
        LET game == chd_verification.verification_result.game
            outcome == chd_verification.verification_result.cue_verification_result
            allow == chd_verification.allow_cue_mismatches
        IN /\ chd_verification.state = "returned" => chd_verification.result = game
           /\ outcome \in {"NO_CUE_NEEDED", "GENERATED_CUE_VERIFIED_EXACTLY",
                           "GENERATED_CUE_MATCHES_ESSENTIALS_FROM_EXTRA_CUE"}
                 => chd_verification.state = "returned"
           /\ outcome \in {"GENERATED_CUE_MISMATCH_WITH_NO_EXTRA_CUE_PROVIDED",
                           "GENERATED_CUE_DOES_NOT_MATCH_ESSENTIALS_FROM_EXTRA_CUE"}
                 => IF allow THEN chd_verification.state = "returned"
                    ELSE /\ chd_verification.state = "raised"
                         /\ chd_verification.exception.type = "VerificationException"
           /\ chd_verification.state = "raised" =>
                 \A other \in AllCueVerificationResults :
                     Severity(other) >= Severity(outcome) => IsFatal(game, other, allow)
           /\ (chd_verification.state = "returned" /\ ~allow) => ~IsFatal(game, outcome, TRUE)

\* With allow_cue_mismatches, a .cue that does not match the essentials of
\* the extra .cue has not kept verify_chd from returning the Game
C20_Witness ==
    /\ ChdPolicyApplied
    /\ chd_verification.allow_cue_mismatches
    /\ chd_verification.verification_result.cue_verification_result
          = "GENERATED_CUE_DOES_NOT_MATCH_ESSENTIALS_FROM_EXTRA_CUE"
    /\ chd_verification.state = "returned"
    /\ chd_verification.result = chd_verification.verification_result.game

(***************************************************************************)
(* verify_redump_dump_folder as a function of the order in which           *)
(* dump_folder.iterdir() yields the entries                                *)
(***************************************************************************)
\* The orders iterdir() may yield the entries of a folder in
IterdirOrders(folder) ==
    {order \in SeqsOfLength(folder, Cardinality(folder)) : Range(order) = folder}

\* Lines 91-132: the loop over the entries in the order given, left at the
\* first exception
RECURSIVE VerifyDumpFiles(_, _, _)
VerifyDumpFiles(d, order, loop) ==
    IF order = <<>> \/ loop.verification.state # "running" THEN loop
    ELSE VerifyDumpFiles(d, Tail(order),
                         VerifyDumpFile(d, loop.verified_roms, loop.cue_verified, Head(order)))

\* Lines 86-207
verify_redump_dump_folder(d, folder, order, source) ==
    LET loop == VerifyDumpFiles(d, order, LoopState(Running, <<>>, FALSE))
    IN IF loop.verification.state = "running"
       THEN VerifyDumpAsAWhole(d, folder, source, loop.verified_roms, loop.cue_verified)
       ELSE loop.verification

\* Both raise an exception of the same type, or both return the same Game and
\* outcome
SameVerification(v, w) ==
    \/ /\ v.state = "raised" /\ w.state = "raised"
       /\ v.exception.type = w.exception.type
    \/ /\ v.state = "returned" /\ w.state = "returned"
       /\ v.result = w.result

\* C21: however the entries of the folder were visited, visiting them in any
\* other order ends the same way: with an exception of the same type both
\* times, or with the same Game and the same outcome both times
C21_OrderOfFilesIsIrrelevant ==
    Done =>
        \A order \in IterdirOrders(dump_folder) :
            SameVerification(verification,
                             verify_redump_dump_folder(dat, dump_folder, order, extra_cue_source))

====
